---- MODULE Spec2Model ----
(***************************************************************************)
(* A model of ptvsd's wrapper.py: the adapter between the editor's debug   *)
(* protocol and pydevd's line protocol.                                    *)
(*                                                                         *)
(*   Part A  IDMap: the two-way map of editor IDs and pydevd IDs.          *)
(*   Part B  PydevdSocket: sequence numbers, the pending-request table,    *)
(*           and send(), which routes a reply or an event.                 *)
(*   Part C  VSCodeMessageProcessor: the suspend / run event handlers and  *)
(*           the request handlers that share their maps and caches.        *)
(*   Part D  VSCodeMessageProcessor: attach, launch, configurationDone,    *)
(*           pause, the resume requests and exceptionInfo.                 *)
(*   Part E  VSCodeMessageProcessor: setBreakpoints.                       *)
(*   Part F  VSCodeMessageProcessor: threads, variables, setVariable and   *)
(*           evaluate, the handlers that parse pydevd's XML replies.       *)
(*   Part G  PydevdSocket: close.                                          *)
(*   Part H  ExceptionsManager and setExceptionBreakpoints.                *)
(*   Part I  VSCodeMessageProcessor: start and the message thread.         *)
(*   Part J  VSCodeMessageProcessor: handle_pydevd_stopped and disconnect. *)
(*   Part K  VSCodeMessageProcessor: _get_hit_condition_expression.        *)
(*                                                                         *)
(* The specifications range over the same variables; each takes the        *)
(* actions of the handlers it is about and leaves the other variables      *)
(* alone.                                                                  *)
(***************************************************************************)
EXTENDS Integers, Sequences, FiniteSets, TLC

VARIABLES
    idmap,      \* Part A: one IDMap: [v2p, p2v, next_id]
    idlock,     \* Part A: IDMap._lock: the caller holding it, or 0
    call,       \* Part A: each caller's call in progress
    hist,       \* Part A: history of allocations and releases, in lock order
    ncalls,     \* Part A: number of calls started
    sock_seq,   \* Part B: PydevdSocket.seq
    sock_lock,  \* Part B: PydevdSocket.lock: the thread holding it, or 0
    requests,   \* Part B: PydevdSocket.requests: seq -> future
    pipe,       \* Part B: the packets written to pipe_w, in order
    futs,       \* Part B: the futures created, each with the results set on it
    loopq,      \* Part B: callbacks scheduled on the event loop
    req,        \* Part B: each requesting thread's call in progress
    snd,        \* Part B: the call of send() in progress
    msg_log,    \* Part B: what _handle_msg was called with, in order
    sockh,      \* Part B: history: seqs issued, replies routed, counters
    thread_map, \* Part C: VSCodeMessageProcessor.thread_map (an IDMap)
    frame_map,  \* Part C: frame_map (an IDMap), keys <<thread, frame>>
    var_map,    \* Part C: var_map (an IDMap), keys <<thread, frame, "FRAME">>
    stack_traces,       \* Part C: thread -> the frames reported on suspend
    active_exceptions,  \* Part C: thread -> ExceptionInfo
    is_process_created, \* Part C
    events,     \* Part C: the events sent to the editor, in order
    responses,  \* Part C: the responses sent to the editor, in order
    wr,         \* Part C: pydevd's writer thread: the event handler in progress
    coros,      \* Part C: the on_pydevd_thread_suspend handlers that yielded
    ploopq,     \* Part C: handlers the event loop is to resume, in order
    srv,        \* Part C: the message thread: the request handler in progress
    proch,      \* Part C: history: suspended threads, counters
    start_reason,   \* Part D: None, 'attach' or 'launch'
    notified,       \* Part D: the commands sent to pydevd, in order
    bp_map,         \* Part E: VSCodeMessageProcessor.bp_map (an IDMap)
    bkpoints,       \* Part E: the arguments of the last setBreakpoints
    bph,            \* Part E: history of the setBreakpoints call in progress
    fmt_lock,       \* Part F: SafeReprPresentationProvider._lock: its holder, or 0
    fmt_repr,       \* Part F: SafeReprPresentationProvider._repr: 0, or the handler it was set for
    lp,             \* Part F: the event loop thread: the callback in progress
    sock_closed,    \* Part G: PydevdSocket._closed
    sock_closing,   \* Part G: PydevdSocket._closing
    pipe_ends,      \* Part G: pipe_w and pipe_r: the attribute and its descriptor
    closer,         \* Part G: each thread's call of close in progress
    closeh,         \* Part G: history: calls, descriptors closed, callbacks
    exceptions,     \* Part H: ExceptionsManager.exceptions
    exch,           \* Part H: history: the request handled last, the lookup made last
    readylock,      \* Part I: VSCodeMessageProcessor.readylock is held
    startpc,        \* Part I: the position of start
    serverpc,       \* Part I: the position of the message thread
    inbox,          \* Part I: requests the editor has written and nobody has read
    gateh,          \* Part I: history: the steps of start and the requests processed
    exited,         \* Part J: VSCodeMessageProcessor._exited
    disconnect_request,       \* Part J: the disconnect request kept, or NoRequest
    disconnect_request_event, \* Part J: the event is set
    proc_closed,    \* Part J: VSCodeMessageProcessor._closed
    stopper,        \* Part J: the call of handle_pydevd_stopped in progress
    msgth,          \* Part J: the message thread in on_disconnect
    stoph,          \* Part J: history: what was sent to the editor, calls, requests
    hit_condition,  \* Part K: the hitCondition of a breakpoint
    hit_expr        \* Part K: what _get_hit_condition_expression returned

varsA == <<idmap, idlock, call, hist, ncalls>>

varsB == <<sock_seq, sock_lock, requests, pipe, futs, loopq, req, snd, msg_log, sockh>>

varsC == <<thread_map, frame_map, var_map, stack_traces, active_exceptions,
           is_process_created, events, responses, wr, coros, ploopq, srv, proch>>

varsD == <<start_reason, notified>>

varsE == <<bp_map, bkpoints, bph>>

varsF == <<fmt_lock, fmt_repr, lp>>

varsG == <<sock_closed, sock_closing, pipe_ends, closer, closeh>>

varsH == <<exceptions, exch>>

varsI == <<readylock, startpc, serverpc, inbox, gateh>>

varsJ == <<exited, disconnect_request, disconnect_request_event, proc_closed, stopper, msgth, stoph>>

varsK == <<hit_condition, hit_expr>>

vars == <<varsA, varsB, varsC, varsD, varsE, varsF, varsG, varsH, varsI, varsJ, varsK>>

\* What a step of one part leaves alone.
otherThanA == <<varsB, varsC, varsD, varsE, varsF, varsG, varsH, varsI, varsJ, varsK>>

otherThanB == <<varsA, varsC, varsD, varsE, varsF, varsG, varsH, varsI, varsJ, varsK>>

otherThanC == <<varsA, varsB, varsD, varsE, varsF, varsG, varsH, varsI, varsJ, varsK>>

otherThanCD == <<varsA, varsB, varsE, varsF, varsG, varsH, varsI, varsJ, varsK>>

otherThanCDE == <<varsA, varsB, varsF, varsG, varsH, varsI, varsJ, varsK>>

otherThanCDF == <<varsA, varsB, varsE, varsG, varsH, varsI, varsJ, varsK>>

otherThanBG == <<varsA, varsC, varsD, varsE, varsF, varsH, varsI, varsJ, varsK>>

otherThanCDH == <<varsA, varsB, varsE, varsF, varsG, varsI, varsJ, varsK>>

otherThanI == <<varsA, varsB, varsC, varsD, varsE, varsF, varsG, varsH, varsJ, varsK>>

otherThanJ == <<varsA, varsB, varsC, varsD, varsE, varsF, varsG, varsH, varsI, varsK>>

otherThanK == <<varsA, varsB, varsC, varsD, varsE, varsF, varsG, varsH, varsI, varsJ>>

(***************************************************************************)
(* Python dicts, as sets of <<key, value>> pairs with one pair per key.    *)
(***************************************************************************)
Has(d, k) == \E p \in d : p[1] = k

Get(d, k) == (CHOOSE p \in d : p[1] = k)[2]

Put(d, k, v) == {p \in d : p[1] # k} \cup {<<k, v>>}

Del(d, k) == {p \in d : p[1] # k}

Keys(d) == {p[1] : p \in d}


(***************************************************************************)
(* Part A.  IDMap (wrapper.py, class IDMap).                               *)
(*                                                                         *)
(* pydevd IDs are tuples; None is NoKey for a pydevd ID and NoId for an    *)
(* editor ID.  An argument of add is a plain key or a factory, the lambda  *)
(* of on_setBreakpoints, vsc_bpid -> (path, vsc_bpid).                     *)
(***************************************************************************)
MaxCalls == 3

MaxConcCalls == 3

Callers == {1, 2}

PlainKeys == {<<"k1">>, <<"k2">>}

Paths == {"p"}

NoKey == <<>>

NoId == 0

IdArgs == 0..MaxCalls

FactoryKeys == {<<p, i>> : p \in Paths, i \in 1..MaxCalls}

AllKeys == PlainKeys \cup FactoryKeys

Plain(k) == [factory |-> FALSE, key |-> k]

Factory(p) == [factory |-> TRUE, key |-> <<p>>]

IDMapNew == [v2p |-> {}, p2v |-> {}, next_id |-> 1]

\* add, line 196-197: a callable argument is called with the new ID.
MakeKey(arg, vid) == IF arg.factory THEN <<arg.key[1], vid>> ELSE arg.key

NextIdStuck(n) == n

\* add, line 198.
NextId(n) == n + 1

\* add, lines 195-199: the ID is taken, the counter moves, the forward entry
\* is written.
IDMapAddForward(m, arg) ==
    [m EXCEPT !.next_id = NextId(m.next_id),
              !.v2p = Put(@, m.next_id, MakeKey(arg, m.next_id))]

\* add, line 200.
IDMapAddInverse(m, key, vid) == [m EXCEPT !.p2v = Put(@, key, vid)]

\* remove, lines 206-209: the missing argument is looked up from the other;
\* ok is FALSE when that lookup raises KeyError.
RemoveResolve(m, pydevd_id, vscode_id) ==
    IF pydevd_id = NoKey
    THEN IF Has(m.v2p, vscode_id)
         THEN [ok |-> TRUE, key |-> Get(m.v2p, vscode_id), id |-> vscode_id]
         ELSE [ok |-> FALSE, key |-> NoKey, id |-> vscode_id]
    ELSE IF vscode_id = NoId
         THEN IF Has(m.p2v, pydevd_id)
              THEN [ok |-> TRUE, key |-> pydevd_id, id |-> Get(m.p2v, pydevd_id)]
              ELSE [ok |-> FALSE, key |-> pydevd_id, id |-> NoId]
         ELSE [ok |-> TRUE, key |-> pydevd_id, id |-> vscode_id]

\* What a call returns or raises.
NoRet == [kind |-> "none", id |-> 0, key |-> NoKey, items |-> {}]

RetId(e) == [kind |-> "ok", id |-> e, key |-> NoKey, items |-> {}]

RetKey(k) == [kind |-> "ok", id |-> 0, key |-> k, items |-> {}]

RetItems(s) == [kind |-> "ok", id |-> 0, key |-> NoKey, items |-> s]

RetNone == [kind |-> "ok", id |-> 0, key |-> NoKey, items |-> {}]

KeyError == [kind |-> "KeyError", id |-> 0, key |-> NoKey, items |-> {}]

IdleCall ==
    [pc |-> "idle", op |-> "none", arg |-> Plain(NoKey), id |-> NoId,
     autogen |-> FALSE, vid |-> NoId, key |-> NoKey, ret |-> NoRet,
     snap |-> IDMapNew]

InitA ==
    /\ idmap = IDMapNew
    /\ idlock = 0
    /\ call = [c \in Callers |-> IdleCall]
    /\ hist = <<>>
    /\ ncalls = 0

\* The calls a specification draws from: the keys and IDs passed in, and how
\* many calls are made in all.
SeqProfile == [keys |-> AllKeys, ids |-> IdArgs, limit |-> MaxCalls]

ConcProfile ==
    [keys |-> {<<"k1">>}, ids |-> 0..MaxConcCalls, limit |-> MaxConcCalls]

\* A caller starts a call; snap remembers the map as the call found it.
Begin(c, P, op, arg, id, autogen) ==
    /\ UNCHANGED otherThanA
    /\ call[c].pc = "idle"
    /\ ncalls < P.limit
    /\ ncalls' = ncalls + 1
    /\ call' = [call EXCEPT ![c] =
                  [IdleCall EXCEPT !.pc = op, !.op = op, !.arg = arg, !.id = id,
                                   !.autogen = autogen, !.snap = idmap]]
    /\ UNCHANGED <<idmap, idlock, hist>>

CallAdd(c, P) ==
    \/ \E k \in P.keys \cap PlainKeys : Begin(c, P, "add", Plain(k), NoId, FALSE)
    \/ \E p \in Paths : Begin(c, P, "add", Factory(p), NoId, FALSE)

CallRemove(c, P) ==
    \E k \in P.keys \cup {NoKey}, e \in P.ids :
        Begin(c, P, "remove", Plain(k), e, FALSE)

CallToPydevd(c, P) ==
    \E e \in P.ids \ {NoId} : Begin(c, P, "to_pydevd", Plain(NoKey), e, FALSE)

CallToVscode(c, P) ==
    \E k \in P.keys, a \in BOOLEAN : Begin(c, P, "to_vscode", Plain(k), NoId, a)

CallPairs(c, P) == Begin(c, P, "pairs", Plain(NoKey), NoId, FALSE)

\* add, lines 194-199, entered by add() or by to_vscode's autogen branch.
AddLock(c) ==
    /\ UNCHANGED otherThanA
    /\ call[c].pc = "add"
    /\ idlock = 0
    /\ idlock' = c
    /\ idmap' = IDMapAddForward(idmap, call[c].arg)
    /\ call' = [call EXCEPT ![c].pc = "add2", ![c].vid = idmap.next_id,
                            ![c].key = MakeKey(call[c].arg, idmap.next_id)]
    /\ hist' = Append(hist, [ev |-> "alloc", id |-> idmap.next_id,
                             key |-> MakeKey(call[c].arg, idmap.next_id),
                             via |-> call[c].op])
    /\ UNCHANGED ncalls

\* add, lines 200-201.
AddFinish(c) ==
    /\ UNCHANGED otherThanA
    /\ call[c].pc = "add2"
    /\ idlock = c
    /\ idlock' = 0
    /\ idmap' = IDMapAddInverse(idmap, call[c].key, call[c].vid)
    /\ call' = [call EXCEPT ![c].pc = "done", ![c].ret = RetId(call[c].vid)]
    /\ UNCHANGED <<hist, ncalls>>

\* remove, lines 205-210.  A KeyError leaves the with block and frees the lock.
RemoveLock(c) ==
    /\ UNCHANGED otherThanA
    /\ call[c].pc = "remove"
    /\ idlock = 0
    /\ LET r == RemoveResolve(idmap, call[c].arg.key, call[c].id)
       IN IF r.ok /\ Has(idmap.v2p, r.id)
          THEN /\ idmap' = [idmap EXCEPT !.v2p = Del(@, r.id)]
               /\ idlock' = c
               /\ call' = [call EXCEPT ![c].pc = "remove2", ![c].vid = r.id,
                                       ![c].key = r.key]
               /\ hist' = Append(hist, [ev |-> "release", id |-> r.id,
                                        key |-> r.key, via |-> "remove"])
          ELSE /\ call' = [call EXCEPT ![c].pc = "done", ![c].ret = KeyError]
               /\ UNCHANGED <<idmap, idlock, hist>>
    /\ UNCHANGED ncalls

\* remove, line 211.
RemoveFinish(c) ==
    /\ UNCHANGED otherThanA
    /\ call[c].pc = "remove2"
    /\ idlock = c
    /\ idlock' = 0
    /\ IF Has(idmap.p2v, call[c].key)
       THEN /\ idmap' = [idmap EXCEPT !.p2v = Del(@, call[c].key)]
            /\ call' = [call EXCEPT ![c].pc = "done", ![c].ret = RetNone]
       ELSE /\ call' = [call EXCEPT ![c].pc = "done", ![c].ret = KeyError]
            /\ UNCHANGED idmap
    /\ UNCHANGED <<hist, ncalls>>

\* to_pydevd, line 215: one dict read, no lock.
ToPydevd(c) ==
    /\ UNCHANGED otherThanA
    /\ call[c].pc = "to_pydevd"
    /\ call' = [call EXCEPT ![c].pc = "done",
                  ![c].ret = IF Has(idmap.v2p, call[c].id)
                             THEN RetKey(Get(idmap.v2p, call[c].id))
                             ELSE KeyError]
    /\ UNCHANGED <<idmap, idlock, hist, ncalls>>

MissAlwaysAdds(autogen) == "add"

\* to_vscode, lines 221-225: what a miss does.
OnMiss(autogen) == IF autogen THEN "add" ELSE "raise"

\* to_vscode, lines 219-225: one dict read, no lock; a miss with autogen goes
\* on to add().
ToVscodeLookup(c) ==
    /\ UNCHANGED otherThanA
    /\ call[c].pc = "to_vscode"
    /\ call' = [call EXCEPT ![c] =
                  IF Has(idmap.p2v, call[c].arg.key)
                  THEN [@ EXCEPT !.pc = "done",
                                 !.ret = RetId(Get(idmap.p2v, call[c].arg.key))]
                  ELSE IF OnMiss(call[c].autogen) = "add"
                       THEN [@ EXCEPT !.pc = "add"]
                       ELSE [@ EXCEPT !.pc = "done", !.ret = KeyError]]
    /\ UNCHANGED <<idmap, idlock, hist, ncalls>>

\* pairs, lines 189-190.
Pairs(c) ==
    /\ UNCHANGED otherThanA
    /\ call[c].pc = "pairs"
    /\ idlock = 0
    /\ call' = [call EXCEPT ![c].pc = "done", ![c].ret = RetItems(idmap.p2v)]
    /\ UNCHANGED <<idmap, idlock, hist, ncalls>>

\* The call has returned to its caller.
Return(c) ==
    /\ UNCHANGED otherThanA
    /\ call[c].pc = "done"
    /\ call' = [call EXCEPT ![c] = IdleCall]
    /\ UNCHANGED <<idmap, idlock, hist, ncalls>>

StepA(c, P) ==
    \/ CallAdd(c, P)
    \/ CallRemove(c, P)
    \/ CallToPydevd(c, P)
    \/ CallToVscode(c, P)
    \/ CallPairs(c, P)
    \/ AddLock(c)
    \/ AddFinish(c)
    \/ RemoveLock(c)
    \/ RemoveFinish(c)
    \/ ToPydevd(c)
    \/ ToVscodeLookup(c)
    \/ Pairs(c)
    \/ Return(c)

(***************************************************************************)
(* Part B.  PydevdSocket (wrapper.py, class PydevdSocket).                 *)
(*                                                                         *)
(* Requesting threads call pydevd_request and pydevd_notify; pydevd's      *)
(* writer thread calls send() with each reply and event.  A message is the *)
(* parsed line <<cmd_id, seq, args>>.  pydevd answers only what it has     *)
(* read from the pipe, and numbers its own events below SeqBase.           *)
(***************************************************************************)
SeqBase == 1000000000

MaxReqs == 2

MaxSends == 2

Requesters == {1, 2}

EventSeq == SeqBase - 1

ReplyBodies == {<<"CMD_GET_VARIABLE", "a">>, <<"CMD_THREAD_RUN", "b">>}

NoFut == 0

NoMsg == <<"", 0, "">>

IdleReq == [pc |-> "idle", kind |-> "none", seq |-> 0, fut |-> NoFut]

IdleSend == [pc |-> "idle", msg |-> NoMsg, fut |-> NoFut, dup |-> FALSE]

InitB ==
    /\ sock_seq = SeqBase
    /\ sock_lock = 0
    /\ requests = {}
    /\ pipe = <<>>
    /\ futs = <<>>
    /\ loopq = <<>>
    /\ req = [r \in Requesters |-> IdleReq]
    /\ snd = IdleSend
    /\ msg_log = <<>>
    /\ sockh = [issued |-> <<>>, routed |-> <<>>, resolved |-> {},
                overwrote |-> FALSE, nreq |-> 0, nsent |-> 0]

\* A thread calls pydevd_request or pydevd_notify (its last call, if any, has
\* returned).
CallSocket(r) ==
    /\ UNCHANGED otherThanB
    /\ req[r].pc \in {"idle", "done", "raised"}
    /\ sockh.nreq < MaxReqs
    /\ \E kind \in {"request", "notify"} :
          req' = [req EXCEPT ![r] = [IdleReq EXCEPT !.pc = "make", !.kind = kind]]
    /\ sockh' = [sockh EXCEPT !.nreq = @ + 1]
    /\ UNCHANGED <<sock_seq, sock_lock, requests, pipe, futs, loopq, snd, msg_log>>

SeqStuck(n) == n

\* make_packet, line 377.
SeqAfter(n) == n + 1

\* make_packet, lines 375-379: the number is read and moved on under the lock.
MakePacket(r) ==
    /\ UNCHANGED otherThanB
    /\ req[r].pc = "make"
    /\ sock_lock = 0
    /\ sock_seq' = SeqAfter(sock_seq)
    /\ req' = [req EXCEPT ![r].seq = sock_seq,
                          ![r].pc = IF req[r].kind = "request" THEN "register"
                                    ELSE "write"]
    /\ sockh' = [sockh EXCEPT !.issued = Append(@, sock_seq)]
    /\ UNCHANGED <<sock_lock, requests, pipe, futs, loopq, snd, msg_log>>

\* pydevd_request, line 392, and pydevd_notify, line 384: os.write takes
\* the pipe_w attribute; None (set by close, line 286) raises TypeError and
\* a closed descriptor raises OSError.
PipeWritable(ends) == ends["pipe_w"] = [attr |-> "fd", fd |-> "open"]

\* pydevd_notify, line 384: the packet is written, no lock taken; the
\* error of a pipe that cannot be written goes to the caller.
NotifyWrite(r) ==
    /\ UNCHANGED otherThanB
    /\ req[r].pc = "write"
    /\ IF PipeWritable(pipe_ends)
       THEN /\ pipe' = Append(pipe, req[r].seq)
            /\ req' = [req EXCEPT ![r].pc = "done"]
       ELSE /\ UNCHANGED pipe
            /\ req' = [req EXCEPT ![r].pc = "raised"]
    /\ UNCHANGED <<sock_seq, sock_lock, requests, futs, loopq, snd, msg_log, sockh>>

\* pydevd_request, line 391: self.requests[seq] = loop, fut.
RegisterNothing(d, s, f) == d

RegisterEntry(d, s, f) == Put(d, s, f)

\* pydevd_request, lines 389-391: a new future is made, the lock is taken
\* and the future is registered under the request's number.
Register(r) ==
    /\ UNCHANGED otherThanB
    /\ req[r].pc = "register"
    /\ sock_lock = 0
    /\ sock_lock' = r
    /\ futs' = Append(futs, [seq |-> req[r].seq, results |-> <<>>])
    /\ requests' = RegisterEntry(requests, req[r].seq, Len(futs) + 1)
    /\ req' = [req EXCEPT ![r].pc = "send", ![r].fut = Len(futs) + 1]
    /\ sockh' = [sockh EXCEPT !.overwrote = @ \/ Has(requests, req[r].seq)]
    /\ UNCHANGED <<sock_seq, pipe, loopq, snd, msg_log>>

\* pydevd_request, lines 392-393: the packet is written, still under the
\* lock, and the lock is released; the error of a pipe that cannot be
\* written leaves the with-block, which releases the lock, and goes to the
\* caller.
RequestWrite(r) ==
    /\ UNCHANGED otherThanB
    /\ req[r].pc = "send"
    /\ IF PipeWritable(pipe_ends)
       THEN /\ pipe' = Append(pipe, req[r].seq)
            /\ req' = [req EXCEPT ![r].pc = "done"]
       ELSE /\ UNCHANGED pipe
            /\ req' = [req EXCEPT ![r].pc = "raised"]
    /\ sock_lock' = 0
    /\ UNCHANGED <<sock_seq, requests, futs, loopq, snd, msg_log, sockh>>

\* The numbers pydevd has seen in packets.
Written == {pipe[i] : i \in DOMAIN pipe}

\* pydevd calls send(data): lines 354-360 parse the line.
SendBegin ==
    /\ UNCHANGED otherThanB
    /\ snd.pc \in {"idle", "done"}
    /\ sockh.nsent < MaxSends
    /\ \E b \in ReplyBodies, s \in Written \cup {EventSeq} :
          snd' = [IdleSend EXCEPT !.pc = "pop", !.msg = <<b[1], s, b[2]>>]
    /\ sockh' = [sockh EXCEPT !.nsent = @ + 1]
    /\ UNCHANGED <<sock_seq, sock_lock, requests, pipe, futs, loopq, req, msg_log>>

PopKeepsEntry(d, s) == d

\* send, line 362: dict.pop(seq, default) takes the entry out.
PopEntry(d, s) == Del(d, s)

\* send, line 362: the future of the entry, or None.
AnyFuture(d, s) == IF d = {} THEN NoFut ELSE (CHOOSE p \in d : TRUE)[2]

FutureOf(d, s) == IF Has(d, s) THEN Get(d, s) ELSE NoFut

\* send, lines 361-362.
SendPop ==
    /\ UNCHANGED otherThanB
    /\ snd.pc = "pop"
    /\ sock_lock = 0
    /\ requests' = PopEntry(requests, snd.msg[2])
    /\ snd' = [snd EXCEPT !.pc = "dispatch",
                          !.fut = FutureOf(requests, snd.msg[2]),
                          !.dup = snd.msg[2] \in sockh.resolved]
    /\ sockh' = [sockh EXCEPT
                   !.routed = Append(@, snd.msg),
                   !.resolved = IF Has(requests, snd.msg[2])
                                THEN @ \cup {snd.msg[2]} ELSE @]
    /\ UNCHANGED <<sock_seq, sock_lock, pipe, futs, loopq, req, msg_log>>

DeliverTwice(log, m) == Append(Append(log, m), m)

\* send, line 364: _handle_msg(cmd_id, seq, args).
Deliver(log, m) == Append(log, m)

\* send, lines 363-367.
SendDispatch ==
    /\ UNCHANGED otherThanB
    /\ snd.pc = "dispatch"
    /\ IF snd.fut = NoFut
       THEN /\ msg_log' = Deliver(msg_log, snd.msg)
            /\ UNCHANGED loopq
       ELSE /\ loopq' = Append(loopq, <<snd.fut, snd.msg>>)
            /\ UNCHANGED msg_log
    /\ snd' = [snd EXCEPT !.pc = "done"]
    /\ UNCHANGED <<sock_seq, sock_lock, requests, pipe, futs, req, sockh>>

\* The event loop runs the callback scheduled at line 366: fut.set_result.
LoopSetResult ==
    /\ UNCHANGED otherThanB
    /\ loopq # <<>>
    /\ futs' = [futs EXCEPT ![Head(loopq)[1]].results = Append(@, Head(loopq)[2])]
    /\ loopq' = Tail(loopq)
    /\ UNCHANGED <<sock_seq, sock_lock, requests, pipe, req, snd, msg_log, sockh>>

StepB ==
    \/ \E r \in Requesters : CallSocket(r)
    \/ \E r \in Requesters : MakePacket(r)
    \/ \E r \in Requesters : NotifyWrite(r)
    \/ \E r \in Requesters : Register(r)
    \/ \E r \in Requesters : RequestWrite(r)
    \/ SendBegin
    \/ SendPop
    \/ SendDispatch
    \/ LoopSetResult

(***************************************************************************)
(* Part C.  VSCodeMessageProcessor: the pydevd event handlers for thread   *)
(* create, kill, suspend and run, and the stackTrace and scopes requests.  *)
(*                                                                         *)
(* Three threads act.  pydevd's writer thread calls send() for every event *)
(* and reply, so it runs the event handlers one after another, each up to  *)
(* its first yield.  The event loop thread resumes a handler once the      *)
(* reply it awaits has been routed.  The message thread runs the request   *)
(* handlers.  The maps are IDMaps (Part A); their locked sections are      *)
(* atomic here, because no two threads write one map's same key.           *)
(***************************************************************************)
MaxEvents == 3

MaxRequests == 2

Tids == {"t1", "t2"}

\* The frame lists pydevd reports with a suspend event (frame IDs, innermost
\* first).
FrameLists == {<<>>, <<1>>}

\* The stop reasons pydevd reports in this specification.
StopCodes == {"CMD_ADD_EXCEPTION_BREAK", "CMD_SET_BREAK"}

\* Every stop reason pydevd reports: the three steps, the two exception
\* stops, the breakpoint, and two of the others.
AllStopCodes ==
    {"CMD_STEP_INTO", "CMD_STEP_OVER", "CMD_STEP_RETURN",
     "CMD_STEP_CAUGHT_EXCEPTION", "CMD_ADD_EXCEPTION_BREAK", "CMD_SET_BREAK",
     "CMD_THREAD_SUSPEND", "CMD_RUN_TO_LINE"}

\* The arguments of a stackTrace request.
StartFrames == {0}

LevelCounts == {0}

StopReasonNeverPause(code) ==
    IF code \in {"CMD_STEP_INTO", "CMD_STEP_OVER", "CMD_STEP_RETURN"} THEN "step"
    ELSE IF code \in {"CMD_STEP_CAUGHT_EXCEPTION", "CMD_ADD_EXCEPTION_BREAK"}
         THEN "exception"
    ELSE "breakpoint"

\* on_pydevd_thread_suspend, lines 1767-1794.
StopReason(code) ==
    IF code \in {"CMD_STEP_INTO", "CMD_STEP_OVER", "CMD_STEP_RETURN"} THEN "step"
    ELSE IF code \in {"CMD_STEP_CAUGHT_EXCEPTION", "CMD_ADD_EXCEPTION_BREAK"}
         THEN "exception"
    ELSE IF code = "CMD_SET_BREAK" THEN "breakpoint"
    ELSE "pause"

\* add, lines 194-201, as one locked section.
IDMapAdd(m, arg) ==
    IDMapAddInverse(IDMapAddForward(m, arg), MakeKey(arg, m.next_id), m.next_id)

IDMapRemoveForwardOnly(m, key, id) == [m EXCEPT !.v2p = Del(@, id)]

\* remove(pydevd_id, vscode_id), lines 205-211, with both arguments given.
IDMapRemove(m, key, id) ==
    IF ~Has(m.v2p, id) THEN m
    ELSE [m EXCEPT !.v2p = Del(@, id),
                   !.p2v = IF Has(m.p2v, key) THEN Del(@, key) ELSE @]

\* to_vscode(key, autogen=True), lines 217-225: the map afterwards.
IDMapAutogen(m, key) == IF Has(m.p2v, key) THEN m ELSE IDMapAdd(m, Plain(key))

RemoveNothing(m, t) == m

\* on_pydevd_thread_run, lines 1860-1866: every pair of pairs() whose key
\* starts with the thread is removed.
RemoveScoped(m, t) ==
    [m EXCEPT !.v2p = {p \in @ : ~(\E q \in m.p2v : q[1][1] = t /\ q[2] = p[1])},
              !.p2v = {q \in @ : q[1][1] # t}]

\* ExceptionInfo, lines 1810-1820 (parsed from the reply) and 1822-1825.
ParsedException ==
    [name |-> "reply.type", description |-> "reply.value",
     stack |-> "format_list(frames)", source |-> "frame.file"]

GenericExceptionUnnamed ==
    [name |-> "None", description |-> "None", stack |-> "None", source |-> "None"]

GenericException ==
    [name |-> "BaseException", description |-> "exception: no description",
     stack |-> "None", source |-> "None"]

ThreadEvent(reason, tid) == [event |-> "thread", reason |-> reason, threadId |-> tid]

StoppedEvent(reason, tid) == [event |-> "stopped", reason |-> reason, threadId |-> tid]

ContinuedEvent(tid) == [event |-> "continued", reason |-> "", threadId |-> tid]

ProcessEvent == [event |-> "process", reason |-> "", threadId |-> 0]

IdleWriter == [pc |-> "idle", tid |-> ""]

IdleServer ==
    [pc |-> "idle", req |-> "none", tid |-> "", fid |-> 0, xframes |-> <<>>,
     start |-> 0, levels |-> 0, total |-> 0, out |-> <<>>, args |-> <<>>]

\* History: the event pydevd's writer thread took up last.
LastEvent(ev, t, code, frames) ==
    [ev |-> ev, tid |-> t, code |-> code, frames |-> frames]

NoEvent == LastEvent("none", "", "", <<>>)

InitC ==
    /\ thread_map = IDMapNew
    /\ frame_map = IDMapNew
    /\ var_map = IDMapNew
    /\ stack_traces = {}
    /\ active_exceptions = {}
    /\ is_process_created = FALSE
    /\ events = <<>>
    /\ responses = <<>>
    /\ wr = IdleWriter
    /\ coros = <<>>
    /\ ploopq = <<>>
    /\ srv = IdleServer
    /\ proch = [suspended |-> {}, nev |-> 0, nrq |-> 0, last |-> NoEvent]

\* pydevd's writer thread is between two calls of send().
WriterFree == wr.pc \in {"idle", "run_done"}

\* The writer thread takes up the next event.
NextEvent == WriterFree /\ proch.nev < MaxEvents

CreatedIgnored(created) == TRUE

\* on_pydevd_thread_create, line 1734, and on_configurationDone, line 881,
\* both inside 'with self.is_process_created_lock': if not
\* self.is_process_created.
NotYetCreated(created) == ~created

\* on_pydevd_thread_create, lines 1730-1746.  internal: the thread's name
\* starts with 'pydevd.' or 'ptvsd.'.
EvThreadCreate(t, internal) ==
    /\ UNCHANGED otherThanC
    /\ NextEvent
    /\ is_process_created' = TRUE
    /\ LET ev1 == IF NotYetCreated(is_process_created)
                  THEN Append(events, ProcessEvent) ELSE events
           tm == IDMapAutogen(thread_map, t)
       IN IF internal
          THEN /\ events' = ev1
               /\ UNCHANGED thread_map
          ELSE /\ thread_map' = tm
               /\ events' = Append(ev1, ThreadEvent("started", Get(tm.p2v, t)))
    /\ wr' = IdleWriter
    /\ proch' = [proch EXCEPT !.nev = @ + 1,
                              !.last = LastEvent("create", t, "", <<>>)]
    /\ UNCHANGED <<frame_map, var_map, stack_traces, active_exceptions, responses,
                   coros, ploopq, srv>>

\* on_pydevd_thread_kill, lines 1749-1758.
EvThreadKill(t) ==
    /\ UNCHANGED otherThanC
    /\ NextEvent
    /\ IF Has(thread_map.p2v, t)
       THEN /\ thread_map' = IDMapRemove(thread_map, t, Get(thread_map.p2v, t))
            /\ events' = Append(events, ThreadEvent("exited", Get(thread_map.p2v, t)))
       ELSE UNCHANGED <<thread_map, events>>
    /\ wr' = IdleWriter
    /\ proch' = [proch EXCEPT !.nev = @ + 1,
                              !.last = LastEvent("kill", t, "", <<>>)]
    /\ UNCHANGED <<frame_map, var_map, stack_traces, active_exceptions,
                   is_process_created, responses, coros, ploopq, srv>>

\* on_pydevd_thread_suspend, lines 1762-1838, up to its first yield: the
\* frames are cached; an exception stop with a frame sends the request for
\* __exception__ and yields (line 1809); one without a frame falls back at
\* once (xframes[0] raises); any other stop sends 'stopped'.
EvThreadSuspend(t, code, frames) ==
    /\ UNCHANGED otherThanC
    /\ NextEvent
    /\ wr' = IdleWriter
    /\ proch' = [proch EXCEPT !.nev = @ + 1, !.suspended = @ \cup {t},
                              !.last = LastEvent("suspend", t, code, frames)]
    /\ IF ~Has(thread_map.p2v, t)
       THEN UNCHANGED <<stack_traces, active_exceptions, events, coros>>
       ELSE /\ stack_traces' = Put(stack_traces, t, frames)
            /\ IF StopReason(code) # "exception"
               THEN /\ events' = Append(events, StoppedEvent(StopReason(code),
                                                            Get(thread_map.p2v, t)))
                    /\ UNCHANGED <<active_exceptions, coros>>
               ELSE IF frames = <<>>
                    THEN /\ active_exceptions' =
                               Put(active_exceptions, t, GenericException)
                         /\ events' = Append(events, StoppedEvent("exception",
                                                            Get(thread_map.p2v, t)))
                         /\ UNCHANGED coros
                    ELSE /\ coros' = Append(coros,
                               [handler |-> "on_pydevd_thread_suspend",
                                tid |-> t, vsc_tid |-> Get(thread_map.p2v, t),
                                st |-> "await", reply |-> "none"])
                         /\ UNCHANGED <<active_exceptions, events>>
    /\ UNCHANGED <<thread_map, frame_map, var_map, is_process_created, responses,
                   ploopq, srv>>

\* pydevd answers the request of handler h; send() routes the reply to the
\* handler's future and schedules it on the event loop (lines 362-366).
EvReply(h, kind) ==
    /\ UNCHANGED otherThanC
    /\ WriterFree
    /\ h \in DOMAIN coros
    /\ coros[h].st = "await"
    /\ coros' = [coros EXCEPT ![h].st = "ready", ![h].reply = kind]
    /\ ploopq' = Append(ploopq, h)
    /\ wr' = IdleWriter
    /\ UNCHANGED <<thread_map, frame_map, var_map, stack_traces, active_exceptions,
                   is_process_created, events, responses, srv, proch>>

\* on_pydevd_thread_suspend, lines 1810-1838, resumed on the event loop: the
\* reply is parsed (or the fallback taken), the record is stored, 'stopped'
\* is sent.
ResumeSuspend ==
    /\ UNCHANGED otherThanC
    /\ ploopq # <<>>
    /\ coros[Head(ploopq)].handler = "on_pydevd_thread_suspend"
    /\ LET h == Head(ploopq)
       IN /\ active_exceptions' =
                Put(active_exceptions, coros[h].tid,
                    IF coros[h].reply = "ok" THEN ParsedException
                    ELSE GenericException)
          /\ events' = Append(events, StoppedEvent("exception", coros[h].vsc_tid))
          /\ coros' = [coros EXCEPT ![h].st = "done"]
    /\ ploopq' = Tail(ploopq)
    /\ UNCHANGED <<thread_map, frame_map, var_map, stack_traces, is_process_created,
                   responses, wr, srv, proch>>

\* on_pydevd_thread_run, lines 1841-1844.
EvThreadRun(t) ==
    /\ UNCHANGED otherThanC
    /\ NextEvent
    /\ wr' = [pc |-> "run_stacks", tid |-> t]
    /\ proch' = [proch EXCEPT !.nev = @ + 1,
                              !.last = LastEvent("run", t, "", <<>>)]
    /\ UNCHANGED <<thread_map, frame_map, var_map, stack_traces, active_exceptions,
                   is_process_created, events, responses, coros, ploopq, srv>>

\* on_pydevd_thread_run, lines 1848-1852.
RunStacks ==
    /\ UNCHANGED otherThanC
    /\ wr.pc = "run_stacks"
    /\ stack_traces' = Del(stack_traces, wr.tid)
    /\ wr' = [wr EXCEPT !.pc = "run_exceptions"]
    /\ UNCHANGED <<thread_map, frame_map, var_map, active_exceptions,
                   is_process_created, events, responses, coros, ploopq, srv, proch>>

\* on_pydevd_thread_run, lines 1854-1858.
RunExceptions ==
    /\ UNCHANGED otherThanC
    /\ wr.pc = "run_exceptions"
    /\ active_exceptions' = Del(active_exceptions, wr.tid)
    /\ wr' = [wr EXCEPT !.pc = "run_frames"]
    /\ UNCHANGED <<thread_map, frame_map, var_map, stack_traces,
                   is_process_created, events, responses, coros, ploopq, srv, proch>>

\* on_pydevd_thread_run, lines 1860-1862.
RunFrames ==
    /\ UNCHANGED otherThanC
    /\ wr.pc = "run_frames"
    /\ frame_map' = RemoveScoped(frame_map, wr.tid)
    /\ wr' = [wr EXCEPT !.pc = "run_vars"]
    /\ UNCHANGED <<thread_map, var_map, stack_traces, active_exceptions,
                   is_process_created, events, responses, coros, ploopq, srv, proch>>

\* on_pydevd_thread_run, lines 1864-1866.
RunVars ==
    /\ UNCHANGED otherThanC
    /\ wr.pc = "run_vars"
    /\ var_map' = RemoveScoped(var_map, wr.tid)
    /\ wr' = [wr EXCEPT !.pc = "run_continued"]
    /\ UNCHANGED <<thread_map, frame_map, stack_traces, active_exceptions,
                   is_process_created, events, responses, coros, ploopq, srv, proch>>

\* on_pydevd_thread_run, lines 1868-1873.
RunContinued ==
    /\ UNCHANGED otherThanC
    /\ wr.pc = "run_continued"
    /\ events' = IF Has(thread_map.p2v, wr.tid)
                 THEN Append(events, ContinuedEvent(Get(thread_map.p2v, wr.tid)))
                 ELSE events
    /\ wr' = [wr EXCEPT !.pc = "run_done"]
    /\ proch' = [proch EXCEPT !.suspended = @ \ {wr.tid}]
    /\ UNCHANGED <<thread_map, frame_map, var_map, stack_traces, active_exceptions,
                   is_process_created, responses, coros, ploopq, srv>>

\* The message thread is between two requests.
NextRequest == srv.pc \in {"idle", "done"} /\ proch.nrq < MaxRequests

LevelsAsGiven(levels, totalFrames) == levels

\* on_stackTrace, lines 1146-1147: levels 0 stands for all frames.
LevelsOrAll(levels, totalFrames) == IF levels = 0 THEN totalFrames ELSE levels

ReqStackTraceUncaught(vsc_tid, startFrame, levels) ==
    /\ UNCHANGED otherThanC
    /\ NextRequest
    /\ proch' = [proch EXCEPT !.nrq = @ + 1]
    /\ IF ~Has(thread_map.v2p, vsc_tid) \/ ~Has(stack_traces, Get(thread_map.v2p, vsc_tid))
       THEN srv' = [IdleServer EXCEPT !.pc = "done", !.req = "stackTrace:KeyError"]
       ELSE LET t == Get(thread_map.v2p, vsc_tid)
                xframes == Get(stack_traces, t)
            IN srv' = [IdleServer EXCEPT
                         !.pc = "st_frames", !.req = "stackTrace", !.tid = t,
                         !.xframes = xframes, !.start = startFrame,
                         !.levels = LevelsOrAll(levels, Len(xframes)),
                         !.total = Len(xframes),
                         !.args = <<startFrame, levels>>]
    /\ UNCHANGED <<thread_map, frame_map, var_map, stack_traces, active_exceptions,
                   is_process_created, events, responses, wr, coros, ploopq>>

\* on_stackTrace, lines 1131-1147: the thread is looked up (an unknown ID
\* raises KeyError out of the handler) and its cached frames are read.
ReqStackTrace(vsc_tid, startFrame, levels) ==
    /\ UNCHANGED otherThanC
    /\ NextRequest
    /\ proch' = [proch EXCEPT !.nrq = @ + 1]
    /\ IF ~Has(thread_map.v2p, vsc_tid)
       THEN srv' = [IdleServer EXCEPT !.pc = "done", !.req = "stackTrace:KeyError"]
       ELSE LET t == Get(thread_map.v2p, vsc_tid)
                xframes == IF Has(stack_traces, t) THEN Get(stack_traces, t) ELSE <<>>
            IN srv' = [IdleServer EXCEPT
                         !.pc = "st_frames", !.req = "stackTrace", !.tid = t,
                         !.xframes = xframes, !.start = startFrame,
                         !.levels = LevelsOrAll(levels, Len(xframes)),
                         !.total = Len(xframes),
                         !.args = <<startFrame, levels>>]
    /\ UNCHANGED <<thread_map, frame_map, var_map, stack_traces, active_exceptions,
                   is_process_created, events, responses, wr, coros, ploopq>>

\* on_stackTrace, lines 1150-1181: one turn of the loop over the frames.
StackTraceFrame ==
    /\ UNCHANGED otherThanC
    /\ srv.pc = "st_frames"
    /\ srv.xframes # <<>>
    /\ ~(srv.start = 0 /\ srv.levels <= 0)
    /\ IF srv.start > 0
       THEN /\ srv' = [srv EXCEPT !.start = @ - 1, !.xframes = Tail(@)]
            /\ UNCHANGED frame_map
       ELSE LET key == <<srv.tid, Head(srv.xframes)>>
                fm == IDMapAutogen(frame_map, key)
            IN /\ frame_map' = fm
               /\ srv' = [srv EXCEPT !.levels = @ - 1, !.xframes = Tail(@),
                                     !.out = Append(@, Get(fm.p2v, key))]
    /\ UNCHANGED <<thread_map, var_map, stack_traces, active_exceptions,
                   is_process_created, events, responses, wr, coros, ploopq, proch>>

\* on_stackTrace, lines 1183-1185.
StackTraceRespond ==
    /\ UNCHANGED otherThanC
    /\ srv.pc = "st_frames"
    /\ srv.xframes = <<>> \/ (srv.start = 0 /\ srv.levels <= 0)
    /\ responses' = Append(responses,
                       [req |-> "stackTrace", success |-> TRUE,
                        ids |-> srv.out, total |-> srv.total])
    /\ srv' = [srv EXCEPT !.pc = "done"]
    /\ UNCHANGED <<thread_map, frame_map, var_map, stack_traces, active_exceptions,
                   is_process_created, events, wr, coros, ploopq, proch>>

\* on_scopes, lines 1211-1213: the frame is looked up (an unknown ID raises
\* KeyError out of the handler).
ReqScopes(vsc_fid) ==
    /\ UNCHANGED otherThanC
    /\ NextRequest
    /\ proch' = [proch EXCEPT !.nrq = @ + 1]
    /\ IF ~Has(frame_map.v2p, vsc_fid)
       THEN srv' = [IdleServer EXCEPT !.pc = "done", !.req = "scopes:KeyError"]
       ELSE srv' = [IdleServer EXCEPT
                      !.pc = "sc_var", !.req = "scopes",
                      !.tid = Get(frame_map.v2p, vsc_fid)[1],
                      !.fid = Get(frame_map.v2p, vsc_fid)[2]]
    /\ UNCHANGED <<thread_map, frame_map, var_map, stack_traces, active_exceptions,
                   is_process_created, events, responses, wr, coros, ploopq>>

\* on_scopes, lines 1214-1220.
ScopesRespond ==
    /\ UNCHANGED otherThanC
    /\ srv.pc = "sc_var"
    /\ LET key == <<srv.tid, srv.fid, "FRAME">>
           vm == IDMapAutogen(var_map, key)
       IN /\ var_map' = vm
          /\ responses' = Append(responses,
                             [req |-> "scopes", success |-> TRUE,
                              ids |-> <<Get(vm.p2v, key)>>, total |-> 1])
    /\ srv' = [srv EXCEPT !.pc = "done"]
    /\ UNCHANGED <<thread_map, frame_map, stack_traces, active_exceptions,
                   is_process_created, events, wr, coros, ploopq, proch>>

StepC ==
    \/ \E t \in Tids, internal \in BOOLEAN : EvThreadCreate(t, internal)
    \/ \E t \in Tids : EvThreadKill(t)
    \/ \E t \in Tids, code \in StopCodes, frames \in FrameLists :
          EvThreadSuspend(t, code, frames)
    \/ \E h \in 1..(MaxEvents + MaxRequests), kind \in {"ok", "malformed"} :
          EvReply(h, kind)
    \/ ResumeSuspend
    \/ \E t \in Tids : EvThreadRun(t)
    \/ RunStacks
    \/ RunExceptions
    \/ RunFrames
    \/ RunVars
    \/ RunContinued
    \/ \E e \in 1..MaxEvents, sf \in StartFrames, lv \in LevelCounts :
          ReqStackTrace(e, sf, lv)
    \/ StackTraceFrame
    \/ StackTraceRespond
    \/ \E e \in 1..MaxRequests : ReqScopes(e)
    \/ ScopesRespond

(***************************************************************************)
(* Part D.  VSCodeMessageProcessor: the request handlers for attach,       *)
(* launch, configurationDone, pause, continue, next, stepIn, stepOut and   *)
(* exceptionInfo.  Each runs on the message thread up to its first yield;  *)
(* a failure that escapes a handler is printed by async_handler's done     *)
(* callback and no response is sent.                                       *)
(***************************************************************************)
\* The request and the pydevd command of on_continue, on_next, on_stepIn and
\* on_stepOut.
ResumeCommands ==
    {<<"continue", "CMD_THREAD_RUN">>, <<"next", "CMD_STEP_OVER">>,
     <<"stepIn", "CMD_STEP_INTO">>, <<"stepOut", "CMD_STEP_RETURN">>}

StartReasons == {"attach", "launch"}

\* The threadId arguments of the requests; 0 is 'all threads' for pause.
RequestThreadIds == 0..2

InitD ==
    /\ start_reason = "None"
    /\ notified = <<>>

\* send_response(request, success=..., message=...).
Response(request, success, message) ==
    [req |-> request, success |-> success, ids |-> <<>>, total |-> 0,
     message |-> message]

\* async_handler, lines 787-802: the failure of a handler is printed to
\* stderr by the done callback; the message thread goes on to the next request.
Escaped(request, error) ==
    [IdleServer EXCEPT !.pc = "done", !.req = request, !.out = <<error>>]

Handled(request) == [IdleServer EXCEPT !.pc = "done", !.req = request]

\* IDMap.pydevd_ids, lines 227-231: the keys in the order of the dict, which
\* is the order of registration.
RECURSIVE PydevdIdsFrom(_, _)
PydevdIdsFrom(m, i) ==
    IF i >= m.next_id THEN <<>>
    ELSE IF Has(m.v2p, i) /\ Has(m.p2v, Get(m.v2p, i))
         THEN <<Get(m.v2p, i)>> \o PydevdIdsFrom(m, i + 1)
         ELSE PydevdIdsFrom(m, i + 1)

PydevdIds(m) == PydevdIdsFrom(m, 1)

\* pydevd_notify(cmd, arg) for each arg of args, in order.
RECURSIVE NotifyEach(_, _, _)
NotifyEach(log, cmd, args) ==
    IF args = <<>> THEN log
    ELSE NotifyEach(Append(log, <<cmd, Head(args)>>), cmd, Tail(args))

\* on_attach, lines 986-995, and on_launch, lines 997-1006, up to the yield:
\* the start reason is set, CMD_VERSION is requested and the handler awaits
\* the reply.
ReqStart(reason) ==
    /\ UNCHANGED otherThanCD
    /\ NextRequest
    /\ proch' = [proch EXCEPT !.nrq = @ + 1]
    /\ start_reason' = reason
    /\ notified' = Append(notified, <<"CMD_VERSION", "1.1">>)
    /\ coros' = Append(coros, [handler |-> reason, tid |-> "", vsc_tid |-> 0,
                               st |-> "await", reply |-> "none"])
    /\ srv' = Handled(reason)
    /\ UNCHANGED <<thread_map, frame_map, var_map, stack_traces, active_exceptions,
                   is_process_created, events, responses, wr, ploopq>>

\* on_attach, line 995, and on_launch, line 1006, resumed on the event loop:
\* the response is sent.
ResumeStart ==
    /\ UNCHANGED otherThanCD
    /\ ploopq # <<>>
    /\ coros[Head(ploopq)].handler \in StartReasons
    /\ responses' = Append(responses,
                           Response(coros[Head(ploopq)].handler, TRUE, ""))
    /\ coros' = [coros EXCEPT ![Head(ploopq)].st = "done"]
    /\ ploopq' = Tail(ploopq)
    /\ UNCHANGED <<thread_map, frame_map, var_map, stack_traces, active_exceptions,
                   is_process_created, events, wr, srv, proch, start_reason,
                   notified>>

\* on_configurationDone, lines 870-873: the response is sent, then CMD_RUN.
ReqConfigurationDone ==
    /\ UNCHANGED otherThanCD
    /\ NextRequest
    /\ proch' = [proch EXCEPT !.nrq = @ + 1]
    /\ responses' = Append(responses, Response("configurationDone", TRUE, ""))
    /\ notified' = Append(notified, <<"CMD_RUN", "">>)
    /\ srv' = [IdleServer EXCEPT !.pc = "cd_process", !.req = "configurationDone"]
    /\ UNCHANGED <<thread_map, frame_map, var_map, stack_traces, active_exceptions,
                   is_process_created, events, wr, coros, ploopq, start_reason>>

ConfigurationDoneProcessAnyStart ==
    /\ UNCHANGED otherThanCD
    /\ srv.pc = "cd_process"
    /\ IF ~is_process_created
       THEN /\ is_process_created' = TRUE
            /\ events' = Append(events, ProcessEvent)
       ELSE UNCHANGED <<is_process_created, events>>
    /\ srv' = [srv EXCEPT !.pc = "done"]
    /\ UNCHANGED <<thread_map, frame_map, var_map, stack_traces, active_exceptions,
                   responses, wr, coros, ploopq, proch, start_reason, notified>>

\* on_configurationDone, lines 875-883: an attach session reports the
\* process now, unless it was reported already.
ConfigurationDoneProcess ==
    /\ UNCHANGED otherThanCD
    /\ srv.pc = "cd_process"
    /\ IF start_reason = "attach" /\ NotYetCreated(is_process_created)
       THEN /\ is_process_created' = TRUE
            /\ events' = Append(events, ProcessEvent)
       ELSE UNCHANGED <<is_process_created, events>>
    /\ srv' = [srv EXCEPT !.pc = "done"]
    /\ UNCHANGED <<thread_map, frame_map, var_map, stack_traces, active_exceptions,
                   responses, wr, coros, ploopq, proch, start_reason, notified>>

\* on_pause, lines 1484-1505.
ReqPause(vsc_tid) ==
    /\ UNCHANGED otherThanCD
    /\ NextRequest
    /\ proch' = [proch EXCEPT !.nrq = @ + 1]
    /\ IF ~is_process_created
       THEN /\ responses' = Append(responses,
                   Response("pause", FALSE,
                            "Cannot pause while debugger is initializing"))
            /\ srv' = Handled("pause")
            /\ UNCHANGED notified
       ELSE IF vsc_tid = 0
       THEN /\ notified' = NotifyEach(notified, "CMD_THREAD_SUSPEND",
                                      PydevdIds(thread_map))
            /\ responses' = Append(responses, Response("pause", TRUE, ""))
            /\ srv' = Handled("pause")
       ELSE IF ~Has(thread_map.v2p, vsc_tid)
       THEN /\ srv' = Escaped("pause", "KeyError")
            /\ UNCHANGED <<notified, responses>>
       ELSE /\ notified' = Append(notified, <<"CMD_THREAD_SUSPEND",
                                              Get(thread_map.v2p, vsc_tid)>>)
            /\ responses' = Append(responses, Response("pause", TRUE, ""))
            /\ srv' = Handled("pause")
    /\ UNCHANGED <<thread_map, frame_map, var_map, stack_traces, active_exceptions,
                   is_process_created, events, wr, coros, ploopq, start_reason>>

\* on_continue, on_next, on_stepIn, on_stepOut, lines 1507-1533.
ReqResume(c, vsc_tid) ==
    /\ UNCHANGED otherThanCD
    /\ NextRequest
    /\ proch' = [proch EXCEPT !.nrq = @ + 1]
    /\ IF ~Has(thread_map.v2p, vsc_tid)
       THEN /\ srv' = Escaped(c[1], "KeyError")
            /\ UNCHANGED <<notified, responses>>
       ELSE /\ notified' = Append(notified, <<c[2], Get(thread_map.v2p, vsc_tid)>>)
            /\ responses' = Append(responses, Response(c[1], TRUE, ""))
            /\ srv' = Handled(c[1])
    /\ UNCHANGED <<thread_map, frame_map, var_map, stack_traces, active_exceptions,
                   is_process_created, events, wr, coros, ploopq, start_reason>>

\* on_exceptionInfo, lines 1649-1669.
ReqExceptionInfo(vsc_tid) ==
    /\ UNCHANGED otherThanCD
    /\ NextRequest
    /\ proch' = [proch EXCEPT !.nrq = @ + 1]
    /\ IF ~Has(thread_map.v2p, vsc_tid)
       THEN /\ srv' = Escaped("exceptionInfo", "KeyError")
            /\ UNCHANGED responses
       ELSE LET t == Get(thread_map.v2p, vsc_tid)
                exc == IF Has(active_exceptions, t) THEN Get(active_exceptions, t)
                       ELSE GenericException
            IN /\ responses' = Append(responses,
                                  Response("exceptionInfo", TRUE, exc.description))
               /\ srv' = Handled("exceptionInfo")
    /\ UNCHANGED <<thread_map, frame_map, var_map, stack_traces, active_exceptions,
                   is_process_created, events, wr, coros, ploopq, start_reason,
                   notified>>

StepD ==
    \/ \E reason \in StartReasons : ReqStart(reason)
    \/ ResumeStart
    \/ ReqConfigurationDone
    \/ ConfigurationDoneProcess
    \/ \E e \in RequestThreadIds : ReqPause(e)
    \/ \E c \in ResumeCommands, e \in RequestThreadIds : ReqResume(c, e)
    \/ \E e \in RequestThreadIds : ReqExceptionInfo(e)

(***************************************************************************)
(* Part E.  VSCodeMessageProcessor.on_setBreakpoints and                   *)
(* re_build_breakpoints.  The handler has no yield: it runs on the thread  *)
(* that calls it, from the sweep of the path's old breakpoints to the      *)
(* response.                                                               *)
(***************************************************************************)
MaxRebuilds == 2

BpPaths == {"a.py", "b.py"}

\* The specs of a request: the lines of its breakpoints, in order.
BpLineLists == {<<>>, <<10>>, <<10, 20>>, <<10, 10>>}

NoArgs == [path |-> "", lines |-> <<>>]

\* on_setBreakpoints, lines 1578-1583: no debug option selects another kind.
BpType(path) == "python-line"

InitE ==
    /\ bp_map = IDMapNew
    /\ bkpoints = NoArgs
    /\ bph = [old |-> {}, nrebuild |-> 0]

\* The external IDs registered for a path.
BpIds(m, path) == {q[2] : q \in {r \in m.p2v : r[1][1] = path}}

SweepMatchesAny(key, path) == TRUE

\* on_setBreakpoints, line 1588: pyd_bpid[0] == path.
SweepMatches(key, path) == key[1] = path

\* on_setBreakpoints, lines 1586-1591: for every pair of pairs(), in the
\* order of the dict, whose key starts with the path, CMD_REMOVE_BREAK is
\* sent and the pair is removed.  The result is the map and the commands.
RECURSIVE SweepFrom(_, _, _, _)
SweepFrom(m, log, path, i) ==
    IF i >= m.next_id THEN [map |-> m, log |-> log]
    ELSE IF /\ Has(m.v2p, i)
            /\ SweepMatches(Get(m.v2p, i), path)
            /\ Has(m.p2v, Get(m.v2p, i))
         THEN SweepFrom(IDMapRemove(m, Get(m.v2p, i), i),
                        Append(log, <<"CMD_REMOVE_BREAK", <<BpType(path), path, i>>>>),
                        path, i + 1)
         ELSE SweepFrom(m, log, path, i + 1)

\* on_setBreakpoints, lines 1571-1591, called with the request (or None) and
\* the arguments.
SetBreakpointsSweep(request, args) ==
    /\ bkpoints' = args
    /\ LET r == SweepFrom(bp_map, notified, args.path, 1)
       IN /\ bp_map' = r.map
          /\ notified' = r.log
    /\ srv' = [IdleServer EXCEPT !.pc = "bp_add", !.req = request,
                                 !.tid = args.path, !.xframes = args.lines]

\* An editor's setBreakpoints request.
ReqSetBreakpoints(path, lines) ==
    /\ UNCHANGED otherThanCDE
    /\ NextRequest
    /\ proch' = [proch EXCEPT !.nrq = @ + 1]
    /\ bph' = [bph EXCEPT !.old = BpIds(bp_map, path)]
    /\ SetBreakpointsSweep("setBreakpoints", [path |-> path, lines |-> lines])
    /\ UNCHANGED <<thread_map, frame_map, var_map, stack_traces, active_exceptions,
                   is_process_created, events, responses, wr, coros, ploopq,
                   start_reason>>

ReplayedWithoutSpecs(args) == [args EXCEPT !.lines = <<>>]

\* re_build_breakpoints, line 1567: the stored arguments are passed on.
ReplayedArgs(args) == args

\* re_build_breakpoints, lines 1564-1567.
ReBuildBreakpoints ==
    /\ UNCHANGED otherThanCDE
    /\ srv.pc \in {"idle", "done"}
    /\ bph.nrebuild < MaxRebuilds
    /\ bph' = [bph EXCEPT !.nrebuild = @ + 1, !.old = BpIds(bp_map, bkpoints.path)]
    /\ IF bkpoints = NoArgs
       THEN UNCHANGED <<bkpoints, bp_map, notified, srv>>
       ELSE SetBreakpointsSweep("re_build_breakpoints", ReplayedArgs(bkpoints))
    /\ UNCHANGED <<thread_map, frame_map, var_map, stack_traces, active_exceptions,
                   is_process_created, events, responses, wr, coros, ploopq, proch,
                   start_reason>>

BpUnregistered(m, arg) == IDMapAddForward(m, arg)

\* on_setBreakpoints, lines 1597-1598: bp_map.add(lambda vsc_bpid: (path,
\* vsc_bpid)).
BpRegister(m, arg) == IDMapAdd(m, arg)

\* on_setBreakpoints, lines 1595-1627: one turn of the loop over the specs.
SetBreakpointsAdd ==
    /\ UNCHANGED otherThanCDE
    /\ srv.pc = "bp_add"
    /\ srv.xframes # <<>>
    /\ LET vsc_bpid == bp_map.next_id
           line == Head(srv.xframes)
       IN /\ bp_map' = BpRegister(bp_map, Factory(srv.tid))
          /\ notified' = Append(notified,
                 <<"CMD_SET_BREAK", <<BpType(srv.tid), srv.tid, vsc_bpid, line>>>>)
          /\ srv' = [srv EXCEPT !.xframes = Tail(@),
                                !.out = Append(@, [id |-> vsc_bpid,
                                                   verified |-> TRUE,
                                                   line |-> line])]
    /\ UNCHANGED <<thread_map, frame_map, var_map, stack_traces, active_exceptions,
                   is_process_created, events, responses, wr, coros, ploopq, proch,
                   start_reason, bkpoints, bph>>

\* on_setBreakpoints, lines 1629-1630.
SetBreakpointsRespond ==
    /\ UNCHANGED otherThanCDE
    /\ srv.pc = "bp_add"
    /\ srv.xframes = <<>>
    /\ responses' = IF srv.req = "setBreakpoints"
                    THEN Append(responses,
                                [req |-> "setBreakpoints", success |-> TRUE,
                                 ids |-> <<>>, total |-> 0, message |-> "",
                                 breakpoints |-> srv.out])
                    ELSE responses
    /\ srv' = [srv EXCEPT !.pc = "done"]
    /\ UNCHANGED <<thread_map, frame_map, var_map, stack_traces, active_exceptions,
                   is_process_created, events, wr, coros, ploopq, proch,
                   start_reason, notified, bp_map, bkpoints, bph>>

StepE ==
    \/ \E path \in BpPaths, lines \in BpLineLists : ReqSetBreakpoints(path, lines)
    \/ ReBuildBreakpoints
    \/ SetBreakpointsAdd
    \/ SetBreakpointsRespond

(***************************************************************************)
(* Part F.  VSCodeMessageProcessor: the threads, variables, setVariable    *)
(* and evaluate requests.  A handler runs on the message thread up to its  *)
(* first yield and on the event loop thread afterwards; pydevd's writer    *)
(* thread routes the replies.  The formatter lock of using_format is taken *)
(* for one round trip at a time.                                           *)
(***************************************************************************)
EvalContexts == {"hover", "repl", "watch"}

\* A reply as the handlers read it: kind "malformed" is a payload for which
\* parse_xml_response raises SAXParseException, "xml" a document without a
\* var or thread element, "var" one with a var element, "threads" one with
\* thread elements.
XmlReply(kind, type, value, isErrorOnEval, isContainer, threads) ==
    [kind |-> kind, type |-> type, value |-> value, isErrorOnEval |-> isErrorOnEval,
     isContainer |-> isContainer, threads |-> threads]

NoReply == XmlReply("none", "", "", FALSE, FALSE, <<>>)

MalformedReply == XmlReply("malformed", "", "", FALSE, FALSE, <<>>)

EmptyReply == XmlReply("xml", "", "", FALSE, FALSE, <<>>)

ErrorReply == XmlReply("var", "NameError", "name 'x' is not defined", TRUE, FALSE, <<>>)

VarReplies ==
    {MalformedReply, EmptyReply, ErrorReply,
     XmlReply("var", "int", "1", FALSE, FALSE, <<>>),
     XmlReply("var", "list", "[]", FALSE, TRUE, <<>>),
     XmlReply("var", "NoneType", "None", FALSE, FALSE, <<>>)}

\* The threads pydevd lists: t1 and t2 of the debuggee, and t3, whose name
\* starts with 'pydevd.'.
ListedTids == {"t1", "t2", "t3"}

InternalTids == {"t3"}

\* A thread element of a CMD_LIST_THREADS reply.
XThread(t) == [id |-> t, internal |-> t \in InternalTids]

ThreadLists ==
    {<<>>, <<XThread("t1")>>, <<XThread("t2")>>, <<XThread("t3")>>,
     <<XThread("t1"), XThread("t2")>>, <<XThread("t3"), XThread("t1")>>,
     <<XThread("t2"), XThread("t3")>>}

ThreadReplies ==
    {MalformedReply} \cup {XmlReply("threads", "", "", FALSE, FALSE, l) : l \in ThreadLists}

\* The frameId and variablesReference arguments of the requests.
RequestRefs == 1..2

JsonNull == "null"

IdleLoop == [pc |-> "idle", h |-> 0, todo |-> <<>>, out |-> <<>>]

InitF ==
    /\ fmt_lock = 0
    /\ fmt_repr = 0
    /\ lp = IdleLoop

\* The generator of a handler: the request, the pydevd key its argument
\* resolved to, the round trip it is in, and the replies it has read.
Coroutine(handler, key, context, child) ==
    [handler |-> handler, tid |-> "", vsc_tid |-> 0, st |-> "start", reply |-> "none",
     step |-> 1, key |-> key, context |-> context, child |-> child,
     xml |-> NoReply, xvar |-> NoReply, old_repr |-> 0]

\* send_response(request, **body) of these handlers.
InspResponse(h, request, success, ids, type, result, ref) ==
    [req |-> request, success |-> success, ids |-> ids, total |-> Len(ids),
     message |-> "", h |-> h, type |-> type, result |-> result,
     variablesReference |-> ref]

\* send_error_response, lines 1025-1030.
ErrorResponse(h, request) == InspResponse(h, request, FALSE, <<>>, "", "", 0)

NeverSAXParseException(r) == FALSE

\* parse_xml_response, lines 845-846: the parse raises SAXParseException.
SAXParseException(r) == r.kind = "malformed"

\* The command of a handler's round trip: lines 1231-1234, 1344-1353,
\* 1391-1393 and 1419-1421.
CmdOf(co) ==
    IF co.handler = "on_variables"
    THEN (IF Len(co.key) = 3 THEN "CMD_GET_FRAME" ELSE "CMD_GET_VARIABLE")
    ELSE IF co.handler = "on_setVariable"
    THEN (IF co.step = 1 THEN "CMD_EXEC_EXPRESSION" ELSE "CMD_EVALUATE_EXPRESSION")
    ELSE (IF co.step = 1 THEN "CMD_EVALUATE_EXPRESSION" ELSE "CMD_EXEC_EXPRESSION")

\* The payload of a handler's round trip: lines 1235-1236, 1342, 1349 and
\* 1388-1389 (on_evaluate sends the same msg in both round trips).
PayloadOf(co) ==
    IF co.handler = "on_variables" THEN co.key
    ELSE IF co.handler = "on_setVariable"
    THEN <<co.key[1], co.key[2], "LOCAL",
           IF co.step = 1 THEN "name = value" ELSE "name", "1">>
    ELSE <<co.key[1], co.key[2], "LOCAL", "expression", "1">>

\* using_format, lines 849-859 and 112-121, with the round trip inside its
\* context (lines 1237-1238): acquire(False) either takes the formatter
\* lock, or fails, and the handler sleeps one turn of the event loop.  With
\* the lock taken the provider's _repr is kept in old_repr and replaced
\* (lines 114-115), and the request is sent and awaited.  A request that
\* raises leaves both generators at their yield: neither has a try/finally,
\* so lines 121 and 858 are not run.  cs and q are the coroutines and the
\* loop's queue so far.
UsingFormat(cs, q, h) ==
    IF fmt_lock = 0
    THEN /\ fmt_lock' = h
         /\ fmt_repr' = h
         /\ IF PipeWritable(pipe_ends)
            THEN /\ notified' = Append(notified,
                                       <<CmdOf(cs[h]), h, PayloadOf(cs[h])>>)
                 /\ coros' = [cs EXCEPT ![h].st = "await", ![h].old_repr = fmt_repr]
            ELSE /\ UNCHANGED notified
                 /\ coros' = [cs EXCEPT ![h].st = "raised", ![h].old_repr = fmt_repr]
         /\ ploopq' = q
    ELSE /\ UNCHANGED <<fmt_lock, fmt_repr, notified>>
         /\ coros' = [cs EXCEPT ![h].st = "sleep"]
         /\ ploopq' = Append(q, h)

\* using_format, line 858: leaving the context releases the formatter lock.
FormatRelease(lock, h) == IF lock = h THEN 0 ELSE lock

\* using_format, line 121: leaving the context puts old_repr back.
FormatRestore(repr, lock, h, old_repr) == IF lock = h THEN old_repr ELSE repr

\* on_threads, lines 1043-1044, on the message thread.
ReqThreads ==
    /\ UNCHANGED otherThanCDF
    /\ NextRequest
    /\ proch' = [proch EXCEPT !.nrq = @ + 1]
    /\ coros' = Append(coros, [Coroutine("on_threads", <<>>, "", 0)
                                 EXCEPT !.st = "await"])
    /\ notified' = Append(notified, <<"CMD_LIST_THREADS", Len(coros) + 1, <<>>>>)
    /\ srv' = Handled("threads")
    /\ UNCHANGED <<thread_map, frame_map, var_map, stack_traces, active_exceptions,
                   is_process_created, events, responses, wr, ploopq, start_reason,
                   fmt_lock, fmt_repr, lp>>

\* on_variables, lines 1226-1238, on the message thread: an unknown
\* variablesReference raises KeyError out of the handler.
ReqVariables(vsc_var) ==
    /\ UNCHANGED otherThanCDF
    /\ NextRequest
    /\ proch' = [proch EXCEPT !.nrq = @ + 1]
    /\ IF ~Has(var_map.v2p, vsc_var)
       THEN /\ srv' = Escaped("variables", "KeyError")
            /\ UNCHANGED <<coros, ploopq, notified, fmt_lock, fmt_repr>>
       ELSE /\ srv' = Handled("variables")
            /\ UsingFormat(Append(coros, Coroutine("on_variables",
                                                   Get(var_map.v2p, vsc_var), "", 0)),
                           ploopq, Len(coros) + 1)
    /\ UNCHANGED <<thread_map, frame_map, var_map, stack_traces, active_exceptions,
                   is_process_created, events, responses, wr, start_reason, lp>>

\* on_setVariable, lines 1319-1347, on the message thread: the variable's
\* own path gets an ID before the first round trip.
ReqSetVariable(vsc_var) ==
    /\ UNCHANGED otherThanCDF
    /\ NextRequest
    /\ proch' = [proch EXCEPT !.nrq = @ + 1]
    /\ IF ~Has(var_map.v2p, vsc_var)
       THEN /\ srv' = Escaped("setVariable", "KeyError")
            /\ UNCHANGED <<coros, ploopq, notified, fmt_lock, fmt_repr, var_map>>
       ELSE LET pyd_var == Get(var_map.v2p, vsc_var)
                vm == IDMapAutogen(var_map, pyd_var \o <<"name">>)
            IN /\ var_map' = vm
               /\ srv' = Handled("setVariable")
               /\ UsingFormat(Append(coros,
                                 Coroutine("on_setVariable", pyd_var, "",
                                           Get(vm.p2v, pyd_var \o <<"name">>))),
                              ploopq, Len(coros) + 1)
    /\ UNCHANGED <<thread_map, frame_map, stack_traces, active_exceptions,
                   is_process_created, events, responses, wr, start_reason, lp>>

\* on_evaluate, lines 1382-1393, on the message thread: an unknown frameId
\* raises KeyError out of the handler.
ReqEvaluate(vsc_fid, context) ==
    /\ UNCHANGED otherThanCDF
    /\ NextRequest
    /\ proch' = [proch EXCEPT !.nrq = @ + 1]
    /\ IF ~Has(frame_map.v2p, vsc_fid)
       THEN /\ srv' = Escaped("evaluate", "KeyError")
            /\ UNCHANGED <<coros, ploopq, notified, fmt_lock, fmt_repr>>
       ELSE /\ srv' = Handled("evaluate")
            /\ UsingFormat(Append(coros, Coroutine("on_evaluate",
                                                   Get(frame_map.v2p, vsc_fid),
                                                   context, 0)),
                           ploopq, Len(coros) + 1)
    /\ UNCHANGED <<thread_map, frame_map, var_map, stack_traces, active_exceptions,
                   is_process_created, events, responses, wr, start_reason, lp>>

\* pydevd answers the request handler h awaits; send() routes the reply to
\* the handler's future and schedules it on the event loop (lines 362-366).
EvXmlReply(h, r) ==
    /\ UNCHANGED otherThanCDF
    /\ WriterFree
    /\ h \in DOMAIN coros
    /\ coros[h].st = "await"
    /\ coros[h].handler \in {"on_threads", "on_variables", "on_setVariable",
                             "on_evaluate"}
    /\ r \in (IF coros[h].handler = "on_threads" THEN ThreadReplies ELSE VarReplies)
    /\ coros' = [coros EXCEPT ![h].st = "ready", ![h].reply = r.kind, ![h].xml = r]
    /\ ploopq' = Append(ploopq, h)
    /\ wr' = IdleWriter
    /\ UNCHANGED <<thread_map, frame_map, var_map, stack_traces, active_exceptions,
                   is_process_created, events, responses, srv, proch, start_reason,
                   notified, fmt_lock, fmt_repr, lp>>

\* The event loop is between two callbacks and the next one resumes a
\* handler of the given kind in the given state.
LoopTakes(handler, st) ==
    /\ lp.pc = "idle"
    /\ ploopq # <<>>
    /\ coros[Head(ploopq)].handler = handler
    /\ coros[Head(ploopq)].st = st

\* using_format, lines 850-851: a sleeping handler tries the lock again.
RetryFormat ==
    /\ UNCHANGED otherThanCDF
    /\ lp.pc = "idle"
    /\ ploopq # <<>>
    /\ coros[Head(ploopq)].st = "sleep"
    /\ UsingFormat(coros, Tail(ploopq), Head(ploopq))
    /\ UNCHANGED <<thread_map, frame_map, var_map, stack_traces, active_exceptions,
                   is_process_created, events, responses, wr, srv, proch,
                   start_reason, lp>>

\* The second round trip of on_setVariable (lines 1349-1354) and of
\* on_evaluate (lines 1418-1421): the event loop thread calls using_format.
LoopFormat ==
    /\ UNCHANGED otherThanCDF
    /\ lp.pc = "format"
    /\ UsingFormat(coros, ploopq, lp.h)
    /\ lp' = IdleLoop
    /\ UNCHANGED <<thread_map, frame_map, var_map, stack_traces, active_exceptions,
                   is_process_created, events, responses, wr, srv, proch,
                   start_reason>>

\* on_threads, lines 1046-1057, resumed with the reply.
ResumeThreads ==
    /\ UNCHANGED otherThanCDF
    /\ LoopTakes("on_threads", "ready")
    /\ LET h == Head(ploopq)
       IN IF SAXParseException(coros[h].xml)
          THEN /\ responses' = Append(responses, ErrorResponse(h, "threads"))
               /\ coros' = [coros EXCEPT ![h].st = "done"]
               /\ UNCHANGED lp
          ELSE /\ lp' = [pc |-> "th_lookup", h |-> h, todo |-> coros[h].xml.threads,
                         out |-> <<>>]
               /\ UNCHANGED <<responses, coros>>
    /\ ploopq' = Tail(ploopq)
    /\ UNCHANGED <<thread_map, frame_map, var_map, stack_traces, active_exceptions,
                   is_process_created, events, wr, srv, proch, start_reason,
                   notified, fmt_lock, fmt_repr>>

\* on_threads, lines 1058-1068 and 1074: the name filter and the lookup
\* with autogen=False of one listed thread.
ThreadsLookup ==
    /\ UNCHANGED otherThanCDF
    /\ lp.pc = "th_lookup"
    /\ lp.todo # <<>>
    /\ LET x == Head(lp.todo)
       IN IF x.internal
          THEN lp' = [lp EXCEPT !.todo = Tail(@)]
          ELSE IF Has(thread_map.p2v, x.id)
          THEN lp' = [lp EXCEPT !.todo = Tail(@),
                                !.out = Append(@, Get(thread_map.p2v, x.id))]
          ELSE lp' = [lp EXCEPT !.pc = "th_autogen"]
    /\ UNCHANGED <<thread_map, frame_map, var_map, stack_traces, active_exceptions,
                   is_process_created, events, responses, wr, coros, ploopq, srv,
                   proch, start_reason, notified, fmt_lock, fmt_repr>>

\* on_threads, lines 1069-1074, with to_vscode(autogen=True), lines 219-222:
\* the dict is read again, without the lock; a hit is reported as started.
ThreadsAutogen ==
    /\ UNCHANGED otherThanCDF
    /\ lp.pc = "th_autogen"
    /\ LET x == Head(lp.todo)
       IN IF Has(thread_map.p2v, x.id)
          THEN /\ events' = Append(events,
                                   ThreadEvent("started", Get(thread_map.p2v, x.id)))
               /\ lp' = [lp EXCEPT !.pc = "th_lookup", !.todo = Tail(@),
                                   !.out = Append(@, Get(thread_map.p2v, x.id))]
          ELSE /\ lp' = [lp EXCEPT !.pc = "th_add"]
               /\ UNCHANGED events
    /\ UNCHANGED <<thread_map, frame_map, var_map, stack_traces, active_exceptions,
                   is_process_created, responses, wr, coros, ploopq, srv, proch,
                   start_reason, notified, fmt_lock, fmt_repr>>

\* on_threads, lines 1070-1074, with to_vscode's add (line 223, lines
\* 194-201): the thread gets the next ID and is reported as started.
ThreadsAdd ==
    /\ UNCHANGED otherThanCDF
    /\ lp.pc = "th_add"
    /\ LET x == Head(lp.todo)
           vsc_tid == thread_map.next_id
       IN /\ thread_map' = IDMapAdd(thread_map, Plain(x.id))
          /\ events' = Append(events, ThreadEvent("started", vsc_tid))
          /\ lp' = [lp EXCEPT !.pc = "th_lookup", !.todo = Tail(@),
                              !.out = Append(@, vsc_tid)]
    /\ UNCHANGED <<frame_map, var_map, stack_traces, active_exceptions,
                   is_process_created, responses, wr, coros, ploopq, srv, proch,
                   start_reason, notified, fmt_lock, fmt_repr>>

\* on_threads, line 1076.
ThreadsRespond ==
    /\ UNCHANGED otherThanCDF
    /\ lp.pc = "th_lookup"
    /\ lp.todo = <<>>
    /\ responses' = Append(responses,
                           InspResponse(lp.h, "threads", TRUE, lp.out, "", "", 0))
    /\ coros' = [coros EXCEPT ![lp.h].st = "done"]
    /\ lp' = IdleLoop
    /\ UNCHANGED <<thread_map, frame_map, var_map, stack_traces, active_exceptions,
                   is_process_created, events, wr, ploopq, srv, proch, start_reason,
                   notified, fmt_lock, fmt_repr>>

\* on_variables, lines 1238-1276, resumed with the reply: the context is
\* left, the reply is parsed, a container gets an ID for its own path.
ResumeVariables ==
    /\ UNCHANGED otherThanCDF
    /\ LoopTakes("on_variables", "ready")
    /\ LET h == Head(ploopq)
           r == coros[h].xml
           pyd_child == coros[h].key \o <<"x">>
           vm == IF r.kind = "var" /\ r.isContainer
                 THEN IDMapAutogen(var_map, pyd_child) ELSE var_map
       IN /\ fmt_lock' = FormatRelease(fmt_lock, h)
          /\ fmt_repr' = FormatRestore(fmt_repr, fmt_lock, h, coros[h].old_repr)
          /\ IF SAXParseException(r)
             THEN /\ responses' = Append(responses, ErrorResponse(h, "variables"))
                  /\ UNCHANGED var_map
             ELSE /\ var_map' = vm
                  /\ responses' = Append(responses,
                        InspResponse(h, "variables", TRUE,
                                     IF r.kind = "var"
                                     THEN <<IF r.isContainer THEN Get(vm.p2v, pyd_child)
                                            ELSE 0>>
                                     ELSE <<>>,
                                     r.type, r.value, 0))
          /\ coros' = [coros EXCEPT ![h].st = "done"]
    /\ ploopq' = Tail(ploopq)
    /\ UNCHANGED <<thread_map, frame_map, stack_traces, active_exceptions,
                   is_process_created, events, wr, srv, proch, start_reason,
                   notified, lp>>

\* on_setVariable, lines 1343-1349, resumed with the reply of the first
\* round trip: the context is left, the reply is not read.
ResumeSetVariableExec ==
    /\ UNCHANGED otherThanCDF
    /\ LoopTakes("on_setVariable", "ready")
    /\ coros[Head(ploopq)].step = 1
    /\ fmt_lock' = FormatRelease(fmt_lock, Head(ploopq))
    /\ fmt_repr' = FormatRestore(fmt_repr, fmt_lock, Head(ploopq),
                                 coros[Head(ploopq)].old_repr)
    /\ coros' = [coros EXCEPT ![Head(ploopq)].step = 2, ![Head(ploopq)].st = "format"]
    /\ lp' = [IdleLoop EXCEPT !.pc = "format", !.h = Head(ploopq)]
    /\ ploopq' = Tail(ploopq)
    /\ UNCHANGED <<thread_map, frame_map, var_map, stack_traces, active_exceptions,
                   is_process_created, events, responses, wr, srv, proch,
                   start_reason, notified>>

\* on_setVariable, lines 1350-1375, resumed with the reply of the second
\* round trip.
ResumeSetVariable ==
    /\ UNCHANGED otherThanCDF
    /\ LoopTakes("on_setVariable", "ready")
    /\ coros[Head(ploopq)].step = 2
    /\ LET h == Head(ploopq)
           r == coros[h].xml
       IN /\ fmt_lock' = FormatRelease(fmt_lock, h)
          /\ fmt_repr' = FormatRestore(fmt_repr, fmt_lock, h, coros[h].old_repr)
          /\ responses' = Append(responses,
                IF SAXParseException(r) THEN ErrorResponse(h, "setVariable")
                ELSE IF r.kind # "var"
                THEN InspResponse(h, "setVariable", FALSE, <<>>, "", "", 0)
                ELSE InspResponse(h, "setVariable", TRUE, <<>>, r.type, r.value,
                                  IF r.isContainer THEN coros[h].child ELSE 0))
          /\ coros' = [coros EXCEPT ![h].st = "done"]
    /\ ploopq' = Tail(ploopq)
    /\ UNCHANGED <<thread_map, frame_map, var_map, stack_traces, active_exceptions,
                   is_process_created, events, wr, srv, proch, start_reason,
                   notified, lp>>

\* on_evaluate, lines 1433-1435: a None result is sent as null.
EvaluateResult(type, value) ==
    IF value = "None" /\ type = "NoneType" THEN JsonNull ELSE value

\* on_evaluate, lines 1390-1450, resumed with the reply of the first round
\* trip: the context is left and the reply is parsed; an evaluation error
\* gets an empty result in hover context and a second round trip in repl
\* context; every other result gets a variable ID.
ResumeEvaluate ==
    /\ UNCHANGED otherThanCDF
    /\ LoopTakes("on_evaluate", "ready")
    /\ coros[Head(ploopq)].step = 1
    /\ LET h == Head(ploopq)
           r == coros[h].xml
           context == coros[h].context
           pyd_var == coros[h].key \o <<"EXPRESSION", "expression">>
           vm == IDMapAutogen(var_map, pyd_var)
       IN /\ fmt_lock' = FormatRelease(fmt_lock, h)
          /\ fmt_repr' = FormatRestore(fmt_repr, fmt_lock, h, coros[h].old_repr)
          /\ IF SAXParseException(r)
             THEN /\ responses' = Append(responses, ErrorResponse(h, "evaluate"))
                  /\ coros' = [coros EXCEPT ![h].st = "done"]
                  /\ UNCHANGED <<var_map, lp>>
             ELSE IF r.kind # "var"
             THEN /\ responses' = Append(responses,
                        InspResponse(h, "evaluate", FALSE, <<>>, "", "", 0))
                  /\ coros' = [coros EXCEPT ![h].st = "done"]
                  /\ UNCHANGED <<var_map, lp>>
             ELSE IF context = "hover" /\ r.isErrorOnEval
             THEN /\ responses' = Append(responses,
                        InspResponse(h, "evaluate", TRUE, <<>>, "", JsonNull, 0))
                  /\ coros' = [coros EXCEPT ![h].st = "done"]
                  /\ UNCHANGED <<var_map, lp>>
             ELSE IF context = "repl" /\ r.isErrorOnEval
             THEN /\ coros' = [coros EXCEPT ![h].step = 2, ![h].st = "format",
                                            ![h].xvar = r]
                  /\ lp' = [IdleLoop EXCEPT !.pc = "format", !.h = h]
                  /\ UNCHANGED <<responses, var_map>>
             ELSE /\ var_map' = vm
                  /\ responses' = Append(responses,
                        InspResponse(h, "evaluate", TRUE, <<>>, r.type, r.value,
                                     IF r.isContainer THEN Get(vm.p2v, pyd_var) ELSE 0))
                  /\ coros' = [coros EXCEPT ![h].st = "done"]
                  /\ UNCHANGED lp
    /\ ploopq' = Tail(ploopq)
    /\ UNCHANGED <<thread_map, frame_map, stack_traces, active_exceptions,
                   is_process_created, events, wr, srv, proch, start_reason,
                   notified>>

ReplResultOriginal(xvar, r) == xvar

\* on_evaluate, lines 1422-1430: the result is read from the reply of the
\* exec round trip, or from the first reply when that one has no var.
ReplResult(xvar, r) == IF r.kind = "var" THEN r ELSE xvar

\* on_evaluate, lines 1418-1439, resumed with the reply of the exec round
\* trip.
ResumeEvaluateExec ==
    /\ UNCHANGED otherThanCDF
    /\ LoopTakes("on_evaluate", "ready")
    /\ coros[Head(ploopq)].step = 2
    /\ LET h == Head(ploopq)
           res == ReplResult(coros[h].xvar, coros[h].xml)
       IN /\ fmt_lock' = FormatRelease(fmt_lock, h)
          /\ fmt_repr' = FormatRestore(fmt_repr, fmt_lock, h, coros[h].old_repr)
          /\ responses' = Append(responses,
                InspResponse(h, "evaluate", TRUE, <<>>, res.type,
                             EvaluateResult(res.type, res.value), 0))
          /\ coros' = [coros EXCEPT ![h].st = "done"]
    /\ ploopq' = Tail(ploopq)
    /\ UNCHANGED <<thread_map, frame_map, var_map, stack_traces, active_exceptions,
                   is_process_created, events, wr, srv, proch, start_reason,
                   notified, lp>>

\* on_pydevd_thread_create, lines 1730-1745, with to_vscode(autogen=True),
\* lines 219-222: the process is reported if it was not, and the dict is
\* read without the lock; a hit is reported as started.
EvThreadCreateLookup(t) ==
    /\ UNCHANGED otherThanCDF
    /\ NextEvent
    /\ is_process_created' = TRUE
    /\ proch' = [proch EXCEPT !.nev = @ + 1,
                              !.last = LastEvent("create", t, "", <<>>)]
    /\ LET ev1 == IF NotYetCreated(is_process_created)
                  THEN Append(events, ProcessEvent) ELSE events
       IN IF t \in InternalTids
          THEN /\ events' = ev1
               /\ wr' = IdleWriter
          ELSE IF Has(thread_map.p2v, t)
          THEN /\ events' = Append(ev1, ThreadEvent("started", Get(thread_map.p2v, t)))
               /\ wr' = IdleWriter
          ELSE /\ events' = ev1
               /\ wr' = [pc |-> "create_add", tid |-> t]
    /\ UNCHANGED <<thread_map, frame_map, var_map, stack_traces, active_exceptions,
                   responses, coros, ploopq, srv, start_reason, notified, fmt_lock, fmt_repr,
                   lp>>

\* on_pydevd_thread_create, lines 1745-1746, with to_vscode's add (line 223,
\* lines 194-201).
EvThreadCreateAdd ==
    /\ UNCHANGED otherThanCDF
    /\ wr.pc = "create_add"
    /\ thread_map' = IDMapAdd(thread_map, Plain(wr.tid))
    /\ events' = Append(events, ThreadEvent("started", thread_map.next_id))
    /\ wr' = IdleWriter
    /\ UNCHANGED <<frame_map, var_map, stack_traces, active_exceptions,
                   is_process_created, responses, coros, ploopq, srv, proch,
                   start_reason, notified, fmt_lock, fmt_repr, lp>>

StepF ==
    \/ ReqThreads
    \/ \E e \in RequestRefs : ReqVariables(e)
    \/ \E e \in RequestRefs : ReqSetVariable(e)
    \/ \E e \in RequestRefs, context \in EvalContexts : ReqEvaluate(e, context)
    \/ \E h \in 1..MaxRequests, r \in VarReplies \cup ThreadReplies : EvXmlReply(h, r)
    \/ RetryFormat
    \/ LoopFormat
    \/ ResumeThreads
    \/ ThreadsLookup
    \/ ThreadsAutogen
    \/ ThreadsAdd
    \/ ThreadsRespond
    \/ ResumeVariables
    \/ ResumeSetVariableExec
    \/ ResumeSetVariable
    \/ ResumeEvaluate
    \/ ResumeEvaluateExec

(***************************************************************************)
(* Part G.  PydevdSocket.close.  Any thread may call it; the closing       *)
(* callback _handle_close runs inside the locked section and may call      *)
(* close again.  A pipe end may have been closed by its reader or writer   *)
(* before close gets to it.                                                *)
(***************************************************************************)
MaxCloses == 3

MaxReenters == 1

Closers == {1, 2}

PipeEnds == {"pipe_w", "pipe_r"}

IdleCloser == [pc |-> "idle", reentered |-> 0]

InitG ==
    /\ sock_closed = FALSE
    /\ sock_closing = FALSE
    /\ pipe_ends = [e \in PipeEnds |-> [attr |-> "fd", fd |-> "open"]]
    /\ closer = [c \in Closers |-> IdleCloser]
    /\ closeh = [ncalls |-> 0, closes |-> [e \in PipeEnds |-> 0],
                 ebadf |-> [e \in PipeEnds |-> 0], handle_close |-> 0,
                 returned |-> 0, reentered |-> 0]

NeverClosed(closed) == FALSE

\* close, lines 280-281.
AlreadyClosed(closed) == closed

\* close, lines 276-277: the call returns at once while a close is under way.
CloseCheck(c) ==
    /\ UNCHANGED otherThanBG
    /\ closer[c].pc = "idle"
    /\ closeh.ncalls < MaxCloses
    /\ IF sock_closing
       THEN /\ closeh' = [closeh EXCEPT !.ncalls = @ + 1, !.returned = @ + 1]
            /\ UNCHANGED closer
       ELSE /\ closeh' = [closeh EXCEPT !.ncalls = @ + 1]
            /\ closer' = [closer EXCEPT ![c].pc = "lock"]
    /\ UNCHANGED <<sock_seq, sock_lock, requests, pipe, futs, loopq, req, snd, msg_log,
                   sockh, sock_closed, sock_closing, pipe_ends>>

\* close, lines 279-282: the lock is taken; a closed socket is left alone.
CloseLock(c) ==
    /\ UNCHANGED otherThanBG
    /\ closer[c].pc = "lock"
    /\ sock_lock = 0
    /\ IF AlreadyClosed(sock_closed)
       THEN /\ closer' = [closer EXCEPT ![c].pc = "idle"]
            /\ closeh' = [closeh EXCEPT !.returned = @ + 1]
            /\ UNCHANGED <<sock_lock, sock_closing>>
       ELSE /\ sock_lock' = c
            /\ sock_closing' = TRUE
            /\ closer' = [closer EXCEPT ![c].pc = "pipe_w"]
            /\ UNCHANGED closeh
    /\ UNCHANGED <<sock_seq, requests, pipe, futs, loopq, req, snd, msg_log, sockh,
                   sock_closed, pipe_ends>>

\* close, lines 284-291 and 292-299: the attribute is set to None and the
\* descriptor closed; EBADF of a descriptor closed already is passed over.
ClosePipeEnd(c, e, next) ==
    /\ UNCHANGED otherThanBG
    /\ closer[c].pc = e
    /\ IF pipe_ends[e].attr = "None"
       THEN UNCHANGED <<pipe_ends, closeh>>
       ELSE /\ pipe_ends' = [pipe_ends EXCEPT ![e] = [attr |-> "None", fd |-> "closed"]]
            /\ closeh' = IF pipe_ends[e].fd = "open"
                         THEN [closeh EXCEPT !.closes[e] = @ + 1]
                         ELSE [closeh EXCEPT !.ebadf[e] = @ + 1]
    /\ closer' = [closer EXCEPT ![c].pc = next]
    /\ UNCHANGED <<sock_seq, sock_lock, requests, pipe, futs, loopq, req, snd, msg_log,
                   sockh, sock_closed, sock_closing>>

\* close, line 300: the closing callback is called.
CloseCallback(c) ==
    /\ UNCHANGED otherThanBG
    /\ closer[c].pc = "handle_close"
    /\ closeh' = [closeh EXCEPT !.handle_close = @ + 1]
    /\ closer' = [closer EXCEPT ![c].pc = "in_handle_close"]
    /\ UNCHANGED <<sock_seq, sock_lock, requests, pipe, futs, loopq, req, snd, msg_log,
                   sockh, sock_closed, sock_closing, pipe_ends>>

\* The closing callback calls close: lines 276-277 return at once; without
\* them the call would wait for the lock its own thread holds.
CloseReenter(c) ==
    /\ UNCHANGED otherThanBG
    /\ closer[c].pc = "in_handle_close"
    /\ closer[c].reentered < MaxReenters
    /\ closer' = [closer EXCEPT ![c].reentered = @ + 1,
                                ![c].pc = IF sock_closing THEN @ ELSE "stuck"]
    /\ closeh' = [closeh EXCEPT !.ncalls = @ + 1, !.reentered = @ + 1,
                                !.returned = IF sock_closing THEN @ + 1 ELSE @]
    /\ UNCHANGED <<sock_seq, sock_lock, requests, pipe, futs, loopq, req, snd, msg_log,
                   sockh, sock_closed, sock_closing, pipe_ends>>

\* close, lines 301-302, and the end of the locked section.
CloseFinish(c) ==
    /\ UNCHANGED otherThanBG
    /\ closer[c].pc = "in_handle_close"
    /\ sock_closed' = TRUE
    /\ sock_closing' = FALSE
    /\ sock_lock' = 0
    /\ closer' = [closer EXCEPT ![c] = IdleCloser]
    /\ closeh' = [closeh EXCEPT !.returned = @ + 1]
    /\ UNCHANGED <<sock_seq, requests, pipe, futs, loopq, req, snd, msg_log, sockh,
                   pipe_ends>>

\* The file object of makefile (line 371), or the writer of the pipe, closes
\* its descriptor.
DescriptorClosed(e) ==
    /\ UNCHANGED otherThanBG
    /\ pipe_ends[e] = [attr |-> "fd", fd |-> "open"]
    /\ pipe_ends' = [pipe_ends EXCEPT ![e].fd = "closed"]
    /\ UNCHANGED <<sock_seq, sock_lock, requests, pipe, futs, loopq, req, snd, msg_log,
                   sockh, sock_closed, sock_closing, closer, closeh>>

StepG ==
    \/ \E c \in Closers : CloseCheck(c)
    \/ \E c \in Closers : CloseLock(c)
    \/ \E c \in Closers : ClosePipeEnd(c, "pipe_w", "pipe_r")
    \/ \E c \in Closers : ClosePipeEnd(c, "pipe_r", "handle_close")
    \/ \E c \in Closers : CloseCallback(c)
    \/ \E c \in Closers : CloseReenter(c)
    \/ \E c \in Closers : CloseFinish(c)
    \/ \E e \in PipeEnds : DescriptorClosed(e)

(***************************************************************************)
(* Part H.  ExceptionsManager and on_setExceptionBreakpoints.  The handler *)
(* has no yield and runs on the message thread, as does get_break_mode     *)
(* (called by on_exceptionInfo).  The dict exceptions is a sequence of     *)
(* <<name, mode>> pairs in the order of the dict, one pair per name.       *)
(***************************************************************************)
ODHas(od, k) == \E i \in DOMAIN od : od[i][1] = k

ODGet(od, k) == od[CHOOSE i \in DOMAIN od : od[i][1] = k][2]

\* d[k] = v: a new key goes to the end, a known key keeps its place.
ODPut(od, k, v) ==
    IF ODHas(od, k)
    THEN [i \in DOMAIN od |-> IF od[i][1] = k THEN <<k, v>> ELSE od[i]]
    ELSE Append(od, <<k, v>>)

\* The names the editor configures and the names looked up; which name
\* contains which (ex_name in name, line 417).
ExceptionNames == {"Error", "ValueError", "BaseException"}

RaisedNames == {"ValueError", "builtins.ValueError", "KeyError", "BaseException"}

Containing(ex_name) ==
    IF ex_name = "Error" THEN {"ValueError", "builtins.ValueError", "KeyError"}
    ELSE IF ex_name = "ValueError" THEN {"ValueError", "builtins.ValueError"}
    ELSE {"BaseException"}

NameLen(ex_name) ==
    IF ex_name = "Error" THEN 5 ELSE IF ex_name = "ValueError" THEN 10 ELSE 13

ExceptionOption(path, breakMode) == [path |-> path, breakMode |-> breakMode]

\* The exceptionOptions entries of a request: the whole category, named
\* exceptions under the category, another category.
ExceptionOptions ==
    {ExceptionOption(<<<<"Python Exceptions">>>>, "always"),
     ExceptionOption(<<<<"Python Exceptions">>, <<"Error">>>>, "unhandled"),
     ExceptionOption(<<<<"Python Exceptions">>, <<"ValueError">>>>, "always"),
     ExceptionOption(<<<<"Python Exceptions">>, <<"ValueError", "Error">>>>, "never"),
     ExceptionOption(<<<<"Other">>, <<"Error">>>>, "always")}

ExceptionOptionLists ==
    {<<>>} \cup {<<o>> : o \in ExceptionOptions}
           \cup {<<o1, o2>> : o1 \in ExceptionOptions, o2 \in ExceptionOptions}

FilterSets == SUBSET {"raised", "uncaught"}

\* The arguments of a setExceptionBreakpoints request: filters alone, or
\* exceptionOptions with no filter or with both.
ExceptionRequests ==
    {<<f, <<>>>> : f \in FilterSets}
    \cup {<<f, o>> : f \in {{}, {"raised", "uncaught"}},
                     o \in ExceptionOptionLists \ {<<>>}}

NoLookup == [name |-> "", mode |-> ""]

InitH ==
    /\ exceptions = <<>>
    /\ exch = [before |-> <<>>, mark |-> 0, filters |-> {}, options |-> <<>>,
               lookup |-> NoLookup]

\* remove_all_exception_breaks, lines 402-407.  st is the dict and the
\* commands sent so far.
RECURSIVE RemoveEach(_, _)
RemoveEach(od, log) ==
    IF od = <<>> THEN log
    ELSE RemoveEach(Tail(od),
                    Append(log, <<"CMD_REMOVE_EXCEPTION_BREAK", Head(od)[1]>>))

RemoveNoExceptionBreaks(st) == st

RemoveAllExceptionBreaks(st) ==
    [exceptions |-> <<>>, log |-> RemoveEach(st.exceptions, st.log)]

\* add_exception_break, lines 430-464.
AddExceptionBreak(st, exception, break_raised, break_uncaught) ==
    LET notify_always == IF break_raised THEN 3 ELSE 0
        notify_on_terminate == IF break_uncaught THEN 1 ELSE 0
        break_mode == IF break_raised THEN "always"
                      ELSE IF break_uncaught THEN "unhandled" ELSE "never"
    IN [exceptions |-> ODPut(st.exceptions, exception, break_mode),
        log |-> Append(st.log, <<"CMD_ADD_EXCEPTION_BREAK",
                                 <<exception, notify_always, notify_on_terminate, 0>>>>)]

\* _is_python_exception_category, lines 506-519.
IsPythonExceptionCategory(option) ==
    /\ option.path # <<>>
    /\ Len(option.path[1]) = 1
    /\ option.path[1][1] = "Python Exceptions"

\* apply_exception_options, lines 498-501: the names of every path after
\* the first.
RECURSIVE NamesOf(_)
NamesOf(paths) == IF paths = <<>> THEN <<>> ELSE Head(paths) \o NamesOf(Tail(paths))

RECURSIVE AddEach(_, _, _, _)
AddEach(st, names, break_raised, break_uncaught) ==
    IF names = <<>> THEN st
    ELSE AddEach(AddExceptionBreak(st, Head(names), break_raised, break_uncaught),
                 Tail(names), break_raised, break_uncaught)

\* apply_exception_options, lines 475-504: the loop over the options.
RECURSIVE ApplyEach(_, _)
ApplyEach(st, options) ==
    IF options = <<>> THEN st
    ELSE LET option == Head(options)
             break_raised == option.breakMode = "always"
             break_uncaught == option.breakMode \in {"unhandled", "userUnhandled"}
         IN IF ~IsPythonExceptionCategory(option)
            THEN ApplyEach(st, Tail(options))
            ELSE IF Len(option.path) = 1
            THEN ApplyEach(AddExceptionBreak(st, "BaseException", break_raised,
                                             break_uncaught), Tail(options))
            ELSE ApplyEach(AddEach(st, NamesOf(Tail(option.path)), break_raised,
                                   break_uncaught), Tail(options))

\* apply_exception_options, lines 466-504.
ApplyExceptionOptions(st, options) == ApplyEach(RemoveAllExceptionBreaks(st), options)

\* on_setExceptionBreakpoints, lines 1635-1646.
SetExceptionBreakpoints(st, filters, options) ==
    IF options # <<>> THEN ApplyExceptionOptions(st, options)
    ELSE IF "raised" \in filters \/ "uncaught" \in filters
    THEN AddExceptionBreak(RemoveAllExceptionBreaks(st), "BaseException",
                           "raised" \in filters, "uncaught" \in filters)
    ELSE RemoveAllExceptionBreaks(st)

\* on_setExceptionBreakpoints, lines 1632-1647.
ReqSetExceptionBreakpoints(filters, options) ==
    /\ UNCHANGED otherThanCDH
    /\ NextRequest
    /\ proch' = [proch EXCEPT !.nrq = @ + 1]
    /\ LET st == SetExceptionBreakpoints([exceptions |-> exceptions, log |-> notified],
                                         filters, options)
       IN /\ exceptions' = st.exceptions
          /\ notified' = st.log
    /\ exch' = [exch EXCEPT !.before = exceptions, !.mark = Len(notified),
                            !.filters = filters, !.options = options,
                            !.lookup = NoLookup]
    /\ responses' = Append(responses, Response("setExceptionBreakpoints", TRUE, ""))
    /\ srv' = Handled("setExceptionBreakpoints")
    /\ UNCHANGED <<thread_map, frame_map, var_map, stack_traces, active_exceptions,
                   is_process_created, events, wr, coros, ploopq, start_reason>>

\* _find_exception, lines 409-420: the name itself, or the first key of the
\* dict that name contains, or 'BaseException'.
FindExactOrBase(od, name) == IF ODHas(od, name) THEN name ELSE "BaseException"

FindException(od, name) ==
    IF ODHas(od, name) THEN name
    ELSE IF \E i \in DOMAIN od : name \in Containing(od[i][1])
    THEN od[CHOOSE i \in DOMAIN od :
               /\ name \in Containing(od[i][1])
               /\ \A j \in 1..(i - 1) : name \notin Containing(od[j][1])][1]
    ELSE "BaseException"

\* get_break_mode, lines 422-428.
GetBreakMode(name) ==
    /\ UNCHANGED otherThanCDH
    /\ srv.pc \in {"idle", "done"}
    /\ LET ex_name == FindException(exceptions, name)
       IN exch' = [exch EXCEPT
                     !.lookup = [name |-> name,
                                 mode |-> IF ODHas(exceptions, ex_name)
                                          THEN ODGet(exceptions, ex_name)
                                          ELSE "unhandled"]]
    /\ UNCHANGED <<thread_map, frame_map, var_map, stack_traces, active_exceptions,
                   is_process_created, events, responses, wr, coros, ploopq, srv,
                   proch, start_reason, notified, exceptions>>

StepH ==
    \/ \E rq \in ExceptionRequests : ReqSetExceptionBreakpoints(rq[1], rq[2])
    \/ \E name \in RaisedNames : GetBreakMode(name)

(***************************************************************************)
(* Part I.  VSCodeMessageProcessor.start and the message thread it starts. *)
(* readylock is taken by the constructor (line 665) and released at the    *)
(* end of start (line 701); the message thread takes it before it calls    *)
(* process_messages (lines 684-686).  gateh is the order in which the      *)
(* steps of the two threads and the requests processed took place.         *)
(***************************************************************************)
MaxInbox == 3

HandshakeRequests == {"initialize", "attach", "launch"}

InitI ==
    /\ readylock = TRUE
    /\ startpc = "idle"
    /\ serverpc = "none"
    /\ inbox = <<>>
    /\ gateh = <<>>

\* start, lines 675-682: the event loop thread.
StartEventLoop ==
    /\ UNCHANGED otherThanI
    /\ startpc = "idle"
    /\ startpc' = "loop"
    /\ gateh' = Append(gateh, "loop")
    /\ UNCHANGED <<readylock, serverpc, inbox>>

\* start, lines 684-692: the message thread.
StartServerThread ==
    /\ UNCHANGED otherThanI
    /\ startpc = "loop"
    /\ startpc' = "server"
    /\ serverpc' = "acquire"
    /\ UNCHANGED <<readylock, inbox, gateh>>

\* start, lines 695-700: the initial output event.
StartSendOutput ==
    /\ UNCHANGED otherThanI
    /\ startpc = "server"
    /\ startpc' = "output"
    /\ gateh' = Append(gateh, "output")
    /\ UNCHANGED <<readylock, serverpc, inbox>>

\* start, line 701.
StartRelease ==
    /\ UNCHANGED otherThanI
    /\ startpc = "output"
    /\ startpc' = "done"
    /\ readylock' = FALSE
    /\ gateh' = Append(gateh, "release")
    /\ UNCHANGED <<serverpc, inbox>>

\* threading.Lock.acquire, line 685: blocks while the lock is held.
LockIgnored(lock) == TRUE

LockFree(lock) == ~lock

\* process_messages of start, lines 685-686.
ServerAcquire ==
    /\ UNCHANGED otherThanI
    /\ serverpc = "acquire"
    /\ LockFree(readylock)
    /\ readylock' = TRUE
    /\ serverpc' = "process_messages"
    /\ gateh' = Append(gateh, "process_messages")
    /\ UNCHANGED <<startpc, inbox>>

\* The editor writes a request to the socket; it may do so at any time
\* after it has connected.
EditorSends(request) ==
    /\ UNCHANGED otherThanI
    /\ Len(inbox) + Cardinality({i \in DOMAIN gateh : gateh[i] \in HandshakeRequests})
          < MaxInbox
    /\ inbox' = Append(inbox, request)
    /\ UNCHANGED <<readylock, startpc, serverpc, gateh>>

\* process_messages: the message thread reads the next request and
\* dispatches it.
ProcessOneMessage ==
    /\ UNCHANGED otherThanI
    /\ serverpc = "process_messages"
    /\ inbox # <<>>
    /\ gateh' = Append(gateh, Head(inbox))
    /\ inbox' = Tail(inbox)
    /\ UNCHANGED <<readylock, startpc, serverpc>>

StepI ==
    \/ StartEventLoop
    \/ StartServerThread
    \/ StartSendOutput
    \/ StartRelease
    \/ ServerAcquire
    \/ \E request \in HandshakeRequests : EditorSends(request)
    \/ ProcessOneMessage

(***************************************************************************)
(* Part J.  The end of a session: handle_pydevd_stopped with               *)
(* _wait_for_disconnect, called when the debuggee has ended, and           *)
(* on_disconnect with _handle_disconnect on the message thread.  The calls *)
(* of handle_pydevd_stopped follow one another; _exited is read and        *)
(* written by these calls only.  stoph.out is what was sent to the editor, *)
(* in order.                                                               *)
(***************************************************************************)
MaxStops == 2

MaxDisconnects == 2

ExitCodes == {0, 1}

NoRequest == 0

IdleStopper == [pc |-> "idle", exitcode |-> 0]

IdleHandler == [pc |-> "idle", request |-> NoRequest]

InitJ ==
    /\ exited = FALSE
    /\ disconnect_request = NoRequest
    /\ disconnect_request_event = FALSE
    /\ proc_closed = FALSE
    /\ stopper = IdleStopper
    /\ msgth = IdleHandler
    /\ stoph = [out |-> <<>>, ncalls |-> 0, nreqs |-> 0, first |-> 0,
                waited |-> 0, timedout |-> FALSE]

\* handle_pydevd_stopped, line 740.
NeverExited(flag) == FALSE

AlreadyExited(flag) == flag

\* handle_pydevd_stopped, lines 738-742.
HandlePydevdStopped(exitcode) ==
    /\ UNCHANGED otherThanJ
    /\ stopper.pc = "idle"
    /\ stoph.ncalls < MaxStops
    /\ IF AlreadyExited(exited)
       THEN /\ stoph' = [stoph EXCEPT !.ncalls = @ + 1]
            /\ UNCHANGED <<exited, stopper>>
       ELSE /\ exited' = TRUE
            /\ stopper' = [pc |-> "exited", exitcode |-> exitcode]
            /\ stoph' = [stoph EXCEPT !.ncalls = @ + 1,
                                      !.first = IF stoph.ncalls = 0 THEN exitcode ELSE @]
    /\ UNCHANGED <<disconnect_request, disconnect_request_event, proc_closed, msgth>>

\* handle_pydevd_stopped, line 745.
StoppedSendExited ==
    /\ UNCHANGED otherThanJ
    /\ stopper.pc = "exited"
    /\ stoph' = [stoph EXCEPT !.out = Append(@, <<"exited", stopper.exitcode>>)]
    /\ stopper' = [stopper EXCEPT !.pc = "terminated"]
    /\ UNCHANGED <<exited, disconnect_request, disconnect_request_event, proc_closed,
                   msgth>>

\* handle_pydevd_stopped, lines 747-750: 'terminated' is sent and
\* _wait_for_disconnect is called.
StoppedSendTerminated ==
    /\ UNCHANGED otherThanJ
    /\ stopper.pc = "terminated"
    /\ stoph' = [stoph EXCEPT !.out = Append(@, <<"terminated", 0>>),
                              !.waited = Len(stoph.out) + 1]
    /\ stopper' = [stopper EXCEPT !.pc = "wait"]
    /\ UNCHANGED <<exited, disconnect_request, disconnect_request_event, proc_closed,
                   msgth>>

\* _wait_for_disconnect, line 756: the event was set.
WaitWake ==
    /\ UNCHANGED otherThanJ
    /\ stopper.pc = "wait"
    /\ disconnect_request_event
    /\ stopper' = [stopper EXCEPT !.pc = "respond"]
    /\ UNCHANGED <<exited, disconnect_request, disconnect_request_event, proc_closed,
                   msgth, stoph>>

\* _wait_for_disconnect, lines 756-757: WAIT_FOR_DISCONNECT_REQUEST_TIMEOUT
\* has passed and the event is not set.
WaitTimeout ==
    /\ UNCHANGED otherThanJ
    /\ stopper.pc = "wait"
    /\ ~disconnect_request_event
    /\ stopper' = [stopper EXCEPT !.pc = "respond"]
    /\ stoph' = [stoph EXCEPT !.timedout = TRUE]
    /\ UNCHANGED <<exited, disconnect_request, disconnect_request_event, proc_closed,
                   msgth>>

\* _wait_for_disconnect, lines 758-760.
WaitRespond ==
    /\ UNCHANGED otherThanJ
    /\ stopper.pc = "respond"
    /\ IF disconnect_request # NoRequest
       THEN /\ stoph' = [stoph EXCEPT !.out = Append(@, <<"response", disconnect_request>>)]
            /\ disconnect_request' = NoRequest
       ELSE UNCHANGED <<stoph, disconnect_request>>
    /\ stopper' = IdleStopper
    /\ UNCHANGED <<exited, disconnect_request_event, proc_closed, msgth>>

\* on_disconnect, lines 1008-1013, with _handle_disconnect, line 763: a
\* launch session keeps the request, any other session answers it.  The
\* message loop reads requests until the processor is closed.
OnDisconnect ==
    /\ UNCHANGED otherThanJ
    /\ msgth.pc = "idle"
    /\ ~proc_closed
    /\ stoph.nreqs < MaxDisconnects
    /\ LET request == stoph.nreqs + 1
       IN IF start_reason = "launch"
          THEN /\ disconnect_request' = request
               /\ msgth' = [pc |-> "set", request |-> request]
               /\ stoph' = [stoph EXCEPT !.nreqs = request]
          ELSE /\ stoph' = [stoph EXCEPT !.nreqs = request,
                                         !.out = Append(@, <<"response", request>>)]
               /\ UNCHANGED <<disconnect_request, msgth>>
    /\ UNCHANGED <<exited, disconnect_request_event, proc_closed, stopper>>

\* _handle_disconnect, line 764.
DisconnectSetEvent ==
    /\ UNCHANGED otherThanJ
    /\ msgth.pc = "set"
    /\ disconnect_request_event' = TRUE
    /\ msgth' = [msgth EXCEPT !.pc = "close"]
    /\ UNCHANGED <<exited, disconnect_request, proc_closed, stopper, stoph>>

\* _handle_disconnect, lines 765-767: the owner is notified and the
\* processor is closed if it is not.
DisconnectClose ==
    /\ UNCHANGED otherThanJ
    /\ msgth.pc = "close"
    /\ proc_closed' = TRUE
    /\ msgth' = IdleHandler
    /\ UNCHANGED <<exited, disconnect_request, disconnect_request_event, stopper, stoph>>

\* close, lines 705-713, called by the owner of the processor.
CloseProcessor ==
    /\ UNCHANGED otherThanJ
    /\ ~proc_closed
    /\ msgth.pc = "idle"
    /\ proc_closed' = TRUE
    /\ UNCHANGED <<exited, disconnect_request, disconnect_request_event, stopper,
                   msgth, stoph>>

\* The steps the thread in handle_pydevd_stopped takes by itself.
StopperStep ==
    \/ StoppedSendExited
    \/ StoppedSendTerminated
    \/ WaitWake
    \/ WaitTimeout
    \/ WaitRespond

\* The steps the message thread takes by itself.
HandlerStep ==
    \/ DisconnectSetEvent
    \/ DisconnectClose

StepJ ==
    \/ \E exitcode \in ExitCodes : HandlePydevdStopped(exitcode)
    \/ StoppedSendExited
    \/ StoppedSendTerminated
    \/ WaitWake
    \/ WaitTimeout
    \/ WaitRespond
    \/ OnDisconnect
    \/ DisconnectSetEvent
    \/ DisconnectClose
    \/ CloseProcessor

(***************************************************************************)
(* Part K.  _get_hit_condition_expression.  A text is a sequence of        *)
(* characters; the placeholder '@HIT@' is one element of the result.       *)
(***************************************************************************)
MaxLen == 3

HitChars == {" ", "5", "%", "=", ">", "<", "x"}

Digits == {"5"}

RECURSIVE TextsUpTo(_)
TextsUpTo(n) ==
    IF n = 0 THEN {<<>>}
    ELSE LET shorter == TextsUpTo(n - 1)
         IN shorter \cup {Append(s, c) : s \in {t \in shorter : Len(t) = n - 1},
                                         c \in HitChars}

\* The hitCondition of a breakpoint: missing (None), or a text.
HitCondition(given, text) == [given |-> given, text |-> text]

HitConditions ==
    {HitCondition(FALSE, <<>>)} \cup {HitCondition(TRUE, s) : s \in TextsUpTo(MaxLen)}

NotComputed == [done |-> FALSE, none |-> TRUE, text |-> <<>>]

Returned(none, text) == [done |-> TRUE, none |-> none, text |-> text]

\* No breakpoint has been set.
InitK ==
    /\ hit_condition = HitCondition(FALSE, <<>>)
    /\ hit_expr = NotComputed

\* str.strip, line 1547.
RECURSIVE LStrip(_)
LStrip(s) == IF s # <<>> /\ Head(s) = " " THEN LStrip(Tail(s)) ELSE s

RECURSIVE RStrip(_)
RStrip(s) ==
    IF s # <<>> /\ s[Len(s)] = " " THEN RStrip(SubSeq(s, 1, Len(s) - 1)) ELSE s

NoStrip(s) == s

Strip(s) == RStrip(LStrip(s))

\* int(expr), line 1549, succeeds: digits, nothing else.
IsInt(s) == s # <<>> /\ \A i \in DOMAIN s : s[i] \in Digits

\* str.startswith, lines 1554-1559.
StartsWith(s, prefix) ==
    Len(s) >= Len(prefix) /\ SubSeq(s, 1, Len(prefix)) = prefix

\* _get_hit_condition_expression, lines 1544-1562.
HitConditionExpression(hc) ==
    IF ~hc.given \/ hc.text = <<>> THEN Returned(TRUE, <<>>)
    ELSE LET expr == Strip(hc.text)
         IN IF IsInt(expr)
            THEN Returned(FALSE, <<"@HIT@", " ", "=", "=", " ">> \o expr)
            ELSE IF StartsWith(expr, <<"%">>)
            THEN Returned(FALSE, <<"@HIT@", " ">> \o expr \o <<" ", "=", "=", " ", "0">>)
            ELSE IF \/ StartsWith(expr, <<"=", "=">>)
                    \/ StartsWith(expr, <<">">>)
                    \/ StartsWith(expr, <<"<">>)
            THEN Returned(FALSE, <<"@HIT@", " ">> \o expr)
            ELSE Returned(FALSE, hc.text)

\* on_setBreakpoints, lines 1601-1602: the call.
GetHitConditionExpression ==
    /\ UNCHANGED otherThanK
    /\ ~hit_expr.done
    /\ hit_expr' = HitConditionExpression(hit_condition)
    /\ UNCHANGED hit_condition

StepK == GetHitConditionExpression

(***************************************************************************)
(* Specifications.                                                         *)
(***************************************************************************)
Init == InitA /\ InitB /\ InitC /\ InitD /\ InitE /\ InitF /\ InitG /\ InitH /\ InitI /\ InitJ /\ InitK

\* IDMap, one caller: the calls follow one another.
NextIDMapSeq == StepA(1, SeqProfile)

SpecIDMapSeq == Init /\ [][NextIDMapSeq]_vars

\* IDMap, several callers: the calls interleave at the lock and at the dict
\* reads.
NextIDMapConc == \E c \in Callers : StepA(c, ConcProfile)

SpecIDMapConc == Init /\ [][NextIDMapConc]_vars

\* PydevdSocket: requesting threads, pydevd's writer thread and the event loop.
NextSock == StepB

SpecSock == Init /\ [][NextSock]_vars

\* The processor: pydevd's writer thread, the event loop and the message
\* thread.
NextProc == StepC

SpecProc == Init /\ [][NextProc]_vars

\* The processor's handlers of pydevd's thread events, with every stop
\* reason: pydevd's writer thread and the event loop.
NextEvents ==
    \/ \E t \in Tids, internal \in BOOLEAN : EvThreadCreate(t, internal)
    \/ \E t \in Tids : EvThreadKill(t)
    \/ \E t \in Tids, code \in AllStopCodes, frames \in FrameLists :
          EvThreadSuspend(t, code, frames)
    \/ \E h \in 1..(MaxEvents + MaxRequests), kind \in {"ok", "malformed"} :
          EvReply(h, kind)
    \/ ResumeSuspend
    \/ \E t \in Tids : EvThreadRun(t)
    \/ RunStacks
    \/ RunExceptions
    \/ RunFrames
    \/ RunVars
    \/ RunContinued

SpecEvents == Init /\ [][NextEvents]_vars

\* The processor's thread events with the stackTrace requests of the
\* message thread.
NextStack ==
    \/ \E t \in Tids, internal \in BOOLEAN : EvThreadCreate(t, internal)
    \/ \E t \in Tids : EvThreadKill(t)
    \/ \E t \in Tids, code \in StopCodes, frames \in FrameLists :
          EvThreadSuspend(t, code, frames)
    \/ \E h \in 1..(MaxEvents + MaxRequests) : EvReply(h, "ok")
    \/ ResumeSuspend
    \/ \E t \in Tids : EvThreadRun(t)
    \/ RunStacks
    \/ RunExceptions
    \/ RunFrames
    \/ RunVars
    \/ RunContinued
    \/ \E e \in 1..MaxEvents, sf \in StartFrames, lv \in LevelCounts :
          ReqStackTrace(e, sf, lv)
    \/ StackTraceFrame
    \/ StackTraceRespond

SpecStack == Init /\ [][NextStack]_vars

\* The processor's request handlers, with the thread events that register
\* and release threads and the replies pydevd sends.
NextReq ==
    \/ \E t \in Tids, internal \in BOOLEAN : EvThreadCreate(t, internal)
    \/ \E t \in Tids : EvThreadKill(t)
    \/ \E h \in 1..(MaxEvents + MaxRequests), kind \in {"ok", "malformed"} :
          EvReply(h, kind)
    \/ StepD

SpecReq == Init /\ [][NextReq]_vars

\* The pause request with what sets is_process_created: the thread-create
\* events, attach, launch and configurationDone.
NextPause ==
    \/ \E t \in Tids, internal \in BOOLEAN : EvThreadCreate(t, internal)
    \/ \E h \in 1..(MaxEvents + MaxRequests) : EvReply(h, "ok")
    \/ \E reason \in StartReasons : ReqStart(reason)
    \/ ResumeStart
    \/ ReqConfigurationDone
    \/ ConfigurationDoneProcess
    \/ \E e \in RequestThreadIds : ReqPause(e)

SpecPause == Init /\ [][NextPause]_vars

\* The processor's breakpoint handler.
NextBp == StepE

SpecBp == Init /\ [][NextBp]_vars

\* A session in which thread t1 was created and stopped at a breakpoint with
\* one frame, and the editor has asked for its stack trace and scopes; the
\* logs and counters start afresh.
InitInspect ==
    /\ InitA /\ InitB /\ InitD /\ InitE /\ InitF /\ InitG /\ InitH /\ InitI /\ InitJ /\ InitK
    /\ thread_map = IDMapAutogen(IDMapNew, "t1")
    /\ frame_map = IDMapAutogen(IDMapNew, <<"t1", 1>>)
    /\ var_map = IDMapAutogen(IDMapNew, <<"t1", 1, "FRAME">>)
    /\ stack_traces = Put({}, "t1", <<1>>)
    /\ active_exceptions = {}
    /\ is_process_created = TRUE
    /\ events = <<>>
    /\ responses = <<>>
    /\ wr = IdleWriter
    /\ coros = <<>>
    /\ ploopq = <<>>
    /\ srv = IdleServer
    /\ proch = [suspended |-> {"t1"}, nev |-> 0, nrq |-> 0, last |-> NoEvent]

\* The inspection requests of the message thread, the replies pydevd's
\* writer thread routes, and the event loop that resumes the handlers.
NextInspect == StepF

SpecInspect == InitInspect /\ [][NextInspect]_vars

\* The threads request with the thread-create events of pydevd's writer
\* thread.
NextThreads ==
    \/ \E t \in ListedTids : EvThreadCreateLookup(t)
    \/ EvThreadCreateAdd
    \/ ReqThreads
    \/ \E h \in 1..MaxRequests, r \in ThreadReplies : EvXmlReply(h, r)
    \/ ResumeThreads
    \/ ThreadsLookup
    \/ ThreadsAutogen
    \/ ThreadsAdd
    \/ ThreadsRespond

SpecThreads == InitInspect /\ [][NextThreads]_vars

\* PydevdSocket.close, called by two threads and by the closing callback.
NextClose == StepG

SpecClose == Init /\ [][NextClose]_vars

\* The exception breakpoints: the requests that configure them and the
\* lookups of a break mode.
NextExc == StepH

SpecExc == Init /\ [][NextExc]_vars

\* The start of the bridge: start, the message thread and the editor.
NextStart == StepI

SpecStart == Init /\ [][NextStart]_vars

\* The end of a session that attach or launch has started.
InitStop ==
    /\ InitA /\ InitB /\ InitC /\ InitE /\ InitF /\ InitG /\ InitH /\ InitI /\ InitJ /\ InitK
    /\ start_reason \in StartReasons
    /\ notified = <<>>

NextStop == StepJ

SpecStop == InitStop /\ [][NextStop]_vars

\* A thread that can take a step takes it; whether the debuggee ends, the
\* editor disconnects or the owner closes the processor is up to them.
SpecStopFair == SpecStop /\ WF_vars(StopperStep) /\ WF_vars(HandlerStep)

\* _get_hit_condition_expression applied to every text of the bounded set.
InitHit ==
    /\ InitA /\ InitB /\ InitC /\ InitD /\ InitE /\ InitF /\ InitG /\ InitH /\ InitI /\ InitJ
    /\ hit_condition \in HitConditions
    /\ hit_expr = NotComputed

NextHit == StepK

SpecHit == InitHit /\ [][NextHit]_vars

(***************************************************************************)
(* Claims about IDMap.                                                     *)
(***************************************************************************)
Quiescent == \A c \in Callers : call[c].pc \in {"idle", "done"}

Inverse(m) == m.p2v = {<<p[2], p[1]>> : p \in m.v2p}

\* C1: whenever no IDMap call is in progress, after any sequence of add
\* (plain or factory, also of a key already registered), remove and to_vscode
\* calls, _pydevd_to_vscode is exactly the inverse of _vscode_to_pydevd.
C1_MapsAreInverses == Quiescent => Inverse(idmap)

\* C2: the IDs handed out by one IDMap start at 1 and strictly increase in the
\* order they are allocated, an add returns the ID it allocated, and no ID
\* that a remove released is allocated again.
C2_IdsIncreaseWithoutReuse ==
    /\ \A i \in DOMAIN hist :
         hist[i].ev = "alloc" =>
           /\ hist[i].id >= 1
           /\ (\A j \in 1..(i - 1) : hist[j].ev = "alloc" => hist[j].id < hist[i].id)
           /\ (\A j \in 1..(i - 1) : hist[j].ev = "release" => hist[j].id # hist[i].id)
    /\ (\E i \in DOMAIN hist : hist[i].ev = "alloc") =>
         (\E i \in DOMAIN hist : hist[i].ev = "alloc" /\ hist[i].id = 1)
    /\ \A c \in Callers :
         (call[c].pc = "done" /\ call[c].op = "add") =>
           /\ call[c].ret.kind = "ok"
           /\ \E i \in DOMAIN hist :
                /\ hist[i].ev = "alloc"
                /\ hist[i].id = call[c].ret.id
                /\ \A j \in (i + 1)..Len(hist) : hist[j].ev # "alloc"

\* C2's case: an ID was released and a later allocation was made.
C2_Witness ==
    \E i, j \in DOMAIN hist :
        i < j /\ hist[i].ev = "release" /\ hist[j].ev = "alloc"

\* Nothing but to_vscode's autogen ever wrote or released key k.
OnlyAutogen(k) ==
    \A i \in DOMAIN hist :
        hist[i].key = k => (hist[i].ev = "alloc" /\ hist[i].via = "to_vscode")

AutogenDone(c, k) ==
    /\ call[c].pc = "done"
    /\ call[c].op = "to_vscode"
    /\ call[c].autogen
    /\ call[c].arg.key = k
    /\ call[c].ret.kind = "ok"

\* C3: two to_vscode(k, autogen=True) calls by different callers for a key k
\* that nothing else registers or releases return the same ID and leave
\* exactly one forward entry for k, however the two calls interleave.
C3_ConcurrentAutogenAgrees ==
    \A c1, c2 \in Callers : \A k \in ConcProfile.keys :
        (c1 # c2 /\ AutogenDone(c1, k) /\ AutogenDone(c2, k) /\ OnlyAutogen(k)) =>
            /\ call[c1].ret.id = call[c2].ret.id
            /\ Cardinality({p \in idmap.v2p : p[2] = k}) = 1

\* C4: to_vscode(k, autogen=False) of an unregistered key and to_pydevd(e) of
\* an unregistered ID raise KeyError and leave both maps and the counter as
\* the call found them.
C4_MissRaisesAndChangesNothing ==
    \A c \in Callers :
        call[c].pc = "done" =>
            /\ ( /\ call[c].op = "to_vscode"
                 /\ ~call[c].autogen
                 /\ ~Has(call[c].snap.p2v, call[c].arg.key) )
               => (call[c].ret = KeyError /\ idmap = call[c].snap)
            /\ (call[c].op = "to_pydevd" /\ ~Has(call[c].snap.v2p, call[c].id))
               => (call[c].ret = KeyError /\ idmap = call[c].snap)

\* C4's case: a lookup without autogen missed in a map that holds entries.
C4_Witness ==
    \E c \in Callers :
        /\ call[c].pc = "done"
        /\ call[c].op = "to_vscode"
        /\ ~call[c].autogen
        /\ ~Has(call[c].snap.p2v, call[c].arg.key)
        /\ call[c].ret = KeyError
        /\ idmap.v2p # {}
        /\ idmap.next_id > 1


(***************************************************************************)
(* Claims about PydevdSocket.                                              *)
(***************************************************************************)
\* The replies send() has routed so far that carry number n, in order.
RoutedWith(n) == SelectSeq(sockh.routed, LAMBDA m : m[2] = n)

\* How many holders future f has: a send() that popped it and has not yet
\* scheduled it, callbacks scheduled for it, results set on it.
Holders(f) ==
    (IF snd.pc = "dispatch" /\ snd.fut = f THEN 1 ELSE 0)
    + Cardinality({i \in DOMAIN loopq : loopq[i][1] = f})
    + Len(futs[f].results)

\* C5: the future of every request is completed at most once, with the tuple
\* (cmd_id, seq, args) of the first reply routed with its number, and an
\* entry that send() has selected is gone from the pending table.
C5_FutureCompletedOnceByFirstReply ==
    /\ \A f \in DOMAIN futs :
         /\ Holders(f) <= 1
         /\ \A i \in DOMAIN futs[f].results :
              /\ futs[f].results[i][2] = futs[f].seq
              /\ futs[f].results[i] = RoutedWith(futs[f].seq)[1]
    /\ \A n \in sockh.resolved : ~Has(requests, n)

\* C5's case: a future holds its result and a later reply with the same
\* number has been routed as well.
C5_Witness ==
    \E f \in DOMAIN futs :
        /\ Len(futs[f].results) = 1
        /\ Len(RoutedWith(futs[f].seq)) >= 2
        /\ snd.pc = "done"

\* C6: the numbers make_packet hands out strictly increase in the order they
\* are issued, requests and notifications alike, so the pending table holds
\* one entry per number, each for its own future, and no registration ever
\* replaces an entry.
C6_SeqStrictlyIncreasing ==
    /\ \A i, j \in DOMAIN sockh.issued : i < j => sockh.issued[i] < sockh.issued[j]
    /\ \A r1, r2 \in Requesters :
         (r1 # r2 /\ req[r1].pc \in {"register", "send", "write"}
                  /\ req[r2].pc \in {"register", "send", "write"}) =>
             req[r1].seq # req[r2].seq
    /\ \A p, q \in requests : p[1] = q[1] => p = q
    /\ \A p \in requests : futs[p[2]].seq = p[1]
    /\ ~sockh.overwrote

\* C6's case: two requests of different threads are pending at once.
C6_Witness ==
    /\ Cardinality(requests) >= 2
    /\ \A r \in Requesters : req[r].pc = "done" /\ req[r].kind = "request"

C8_UnknownSeqGoesToHandler ==
    [][ /\ (snd.pc = "pop" /\ snd'.pc = "dispatch" /\ ~Has(requests, snd.msg[2])) =>
            /\ requests' = requests
            /\ snd'.fut = NoFut
            /\ <<futs, loopq, msg_log>>' = <<futs, loopq, msg_log>>
        /\ (snd.pc = "dispatch" /\ snd.fut = NoFut /\ snd'.pc = "done") =>
            /\ msg_log' = Append(msg_log, snd.msg)
            /\ <<futs, loopq, requests>>' = <<futs, loopq, requests>>
      ]_vars

\* C8's case: an event was handed over while a request was pending.
C8_Witness ==
    /\ snd.pc = "done"
    /\ snd.fut = NoFut
    /\ ~snd.dup
    /\ requests # {}
    /\ msg_log # <<>>
    /\ msg_log[Len(msg_log)] = snd.msg

(***************************************************************************)
(* Claims about VSCodeMessageProcessor's thread events.                    *)
(***************************************************************************)

\* C9: for every thread t, stack_traces[t] and active_exceptions[t] exist
\* only between a suspend event for t and the end of the next run event for
\* t, under every interleaving: once the run handler has finished, no later
\* step of a suspend handler that was awaiting its __exception__ reply
\* leaves a record for t.
C9_CachesOnlyWhileSuspended ==
    \A t \in Tids :
        (Has(stack_traces, t) \/ Has(active_exceptions, t)) => t \in proch.suspended

\* The entries of a map, and of the two caches, that belong to threads other
\* than t.
OthersOf(m, t) == {q \in m.p2v : q[1][1] # t}

OthersCached(d, t) == {e \in d : e[1] # t}

\* C10: at the step that ends on_pydevd_thread_run for thread t, frame_map
\* and var_map hold no entry whose key starts with t (no external ID
\* resolves to such a key with to_pydevd), stack_traces and
\* active_exceptions have no entry for t; and no step of the handler changes
\* an entry or a cache of another thread.
C10_RunPurgesThread ==
    [][ /\ (wr.pc = "run_continued" /\ wr'.pc = "run_done") =>
             /\ \A q \in frame_map'.p2v \cup var_map'.p2v : q[1][1] # wr.tid
             /\ \A p \in frame_map'.v2p \cup var_map'.v2p : p[2][1] # wr.tid
             /\ ~Has(stack_traces', wr.tid)
             /\ ~Has(active_exceptions', wr.tid)
        /\ (wr.pc \in {"run_stacks", "run_exceptions", "run_frames", "run_vars",
                       "run_continued"} /\ wr'.pc # wr.pc) =>
             /\ OthersOf(frame_map', wr.tid) = OthersOf(frame_map, wr.tid)
             /\ OthersOf(var_map', wr.tid) = OthersOf(var_map, wr.tid)
             /\ OthersCached(stack_traces', wr.tid) = OthersCached(stack_traces, wr.tid)
             /\ OthersCached(active_exceptions', wr.tid)
                   = OthersCached(active_exceptions, wr.tid)
      ]_vars

(***************************************************************************)
(* Claims about VSCodeMessageProcessor's request handlers.                 *)
(***************************************************************************)

\* No handler is running on the message thread and none awaits a reply.
RequestsSettled ==
    /\ srv.pc \in {"idle", "done"}
    /\ \A h \in DOMAIN coros : coros[h].st = "done"

\* C11: every request gets exactly one response: never more responses than
\* requests, and one response per request once every handler has run to its
\* end and pydevd has answered every round trip; a request that names an
\* unregistered thread ID gets a failure response.
C11_OneResponsePerRequest ==
    /\ Len(responses) <= proch.nrq
    /\ RequestsSettled => Len(responses) = proch.nrq
    /\ (srv.pc = "done" /\ srv.out = <<"KeyError">>) =>
          /\ responses # <<>>
          /\ responses[Len(responses)].req = srv.req
          /\ ~responses[Len(responses)].success

(***************************************************************************)
(* Claims about on_setBreakpoints.                                         *)
(***************************************************************************)

\* A setBreakpoints request has been handled to its response.
SetBreakpointsDone == srv.pc = "done" /\ srv.req = "setBreakpoints"

\* The IDs of the descriptors of the last response.
RespondedIds ==
    {responses[Len(responses)].breakpoints[i].id :
        i \in DOMAIN responses[Len(responses)].breakpoints}

\* The number of CMD_REMOVE_BREAK commands sent for a breakpoint ID.
RemovesSent(id) ==
    Cardinality({i \in DOMAIN notified :
                    /\ notified[i][1] = "CMD_REMOVE_BREAK"
                    /\ notified[i][2][3] = id})

\* C12: when a setBreakpoints request for a path has been handled, the
\* breakpoints registered in bp_map for that path are exactly those created
\* for the request; every entry registered for the path before (by an earlier
\* request A) has been removed, one CMD_REMOVE_BREAK was sent for it, and its
\* ID resolves no more.
C12_SetBreakpointsReplaces ==
    SetBreakpointsDone =>
        /\ BpIds(bp_map, srv.tid) = RespondedIds
        /\ {p[1] : p \in {r \in bp_map.v2p : r[2][1] = srv.tid}} = RespondedIds
        /\ Cardinality(RespondedIds) = Len(bkpoints.lines)
        /\ \A id \in bph.old :
              /\ ~Has(bp_map.v2p, id)
              /\ id \notin RespondedIds
              /\ RemovesSent(id) = 1

\* A second request for a path that had two breakpoints has been handled.
C12_Witness ==
    /\ SetBreakpointsDone
    /\ Cardinality(bph.old) = 2
    /\ bkpoints.lines # <<>>
    /\ proch.nrq = 2

\* The number of CMD_SET_BREAK commands sent for a breakpoint ID, path and
\* line.
SetsSent(id) ==
    Cardinality({i \in DOMAIN notified :
                    /\ notified[i][1] = "CMD_SET_BREAK"
                    /\ notified[i][2][3] = id})

SetSentFor(id, path, line) ==
    \E i \in DOMAIN notified :
        /\ notified[i][1] = "CMD_SET_BREAK"
        /\ notified[i][2] = <<BpType(path), path, id, line>>

\* The IDs of the descriptors of the responses before the last.
EarlierIds ==
    UNION {{responses[k].breakpoints[i].id : i \in DOMAIN responses[k].breakpoints} :
              k \in 1..(Len(responses) - 1)}

\* C13: the response of on_setBreakpoints holds one descriptor per spec, in
\* the order of the specs, each verified and with the spec's line; the IDs
\* are pairwise distinct and new, each ID i is registered in bp_map under
\* the key (path, i) and is the ID sent in that breakpoint's CMD_SET_BREAK.
C13_ResponseDescribesSpecs ==
    SetBreakpointsDone =>
        LET bps == responses[Len(responses)].breakpoints
        IN /\ Len(bps) = Len(bkpoints.lines)
           /\ \A i \in DOMAIN bps :
                 /\ bps[i].verified
                 /\ bps[i].line = bkpoints.lines[i]
                 /\ \A j \in DOMAIN bps : bps[j].id = bps[i].id => j = i
                 /\ bps[i].id \notin EarlierIds \cup bph.old
                 /\ Has(bp_map.v2p, bps[i].id)
                 /\ Get(bp_map.v2p, bps[i].id) = <<srv.tid, bps[i].id>>
                 /\ Has(bp_map.p2v, <<srv.tid, bps[i].id>>)
                 /\ Get(bp_map.p2v, <<srv.tid, bps[i].id>>) = bps[i].id
                 /\ SetsSent(bps[i].id) = 1
                 /\ SetSentFor(bps[i].id, srv.tid, bps[i].line)

\* The second response, for two specs with the same line, after a first
\* request that registered breakpoints.
C13_Witness ==
    /\ SetBreakpointsDone
    /\ Len(responses) = 2
    /\ bkpoints.lines = <<10, 10>>
    /\ responses[1].breakpoints # <<>>

(***************************************************************************)
(* Claims about the suspend, run and kill events.                          *)
(***************************************************************************)

\* The step is the handling of a suspend event by pydevd's writer thread.
SuspendHandled == proch'.nev # proch.nev /\ proch'.last.ev = "suspend"

\* The step is the resumption of a suspend handler on the event loop.
SuspendResumed(h) ==
    /\ h \in DOMAIN coros
    /\ coros[h].handler = "on_pydevd_thread_suspend"
    /\ coros[h].st = "ready"
    /\ coros'[h].st = "done"

StoppedCount(evs) == Cardinality({i \in DOMAIN evs : evs[i].event = "stopped"})

\* The reason the claim gives for a stop code.
ClaimedReason(code) ==
    CASE code \in {"CMD_STEP_INTO", "CMD_STEP_OVER", "CMD_STEP_RETURN"} -> "step"
      [] code \in {"CMD_STEP_CAUGHT_EXCEPTION", "CMD_ADD_EXCEPTION_BREAK"} -> "exception"
      [] code = "CMD_SET_BREAK" -> "breakpoint"
      [] OTHER -> "pause"

\* The handler of a suspend event has sent 'stopped' for the thread with the
\* claimed reason, or (an exception stop with a frame) awaits the reply that
\* makes it send it; the frames are cached.
StoppedSentOrAwaited(t, code, frames) ==
    /\ Has(stack_traces', t)
    /\ Get(stack_traces', t) = frames
    /\ IF ClaimedReason(code) = "exception" /\ frames # <<>>
       THEN /\ events' = events
            /\ Len(coros') = Len(coros) + 1
            /\ coros'[Len(coros')] =
                  [handler |-> "on_pydevd_thread_suspend", tid |-> t,
                   vsc_tid |-> Get(thread_map.p2v, t), st |-> "await",
                   reply |-> "none"]
       ELSE /\ events' = Append(events, StoppedEvent(ClaimedReason(code),
                                                     Get(thread_map.p2v, t)))
            /\ coros' = coros

ClaimedGenericRecord ==
    [name |-> "BaseException", description |-> "exception: no description",
     stack |-> "None", source |-> "None"]

ContinuedCount(evs) == Cardinality({i \in DOMAIN evs : evs[i].event = "continued"})

\* The step takes on_pydevd_thread_run from one place to the next.
RunStep(from, to) == wr.pc = from /\ wr'.pc = to

\* No entry of the map is left for a key of thread t that it had.
ScopedGone(m, mAfter, t) ==
    \A q \in m.p2v :
        q[1][1] = t => q \notin mAfter.p2v /\ ~Has(mAfter.v2p, q[2])

\* C16: on_pydevd_thread_run emits 'continued' for thread t exactly when t
\* has an external ID in thread_map at that moment, at most once per run
\* event, and nothing else emits it; every run event, for a known thread or
\* not, goes through the purge of both caches and of the frame and variable
\* IDs.
C16_ContinuedIffKnown ==
    [][ /\ (proch'.nev # proch.nev /\ proch'.last.ev = "run") =>
              wr' = [pc |-> "run_stacks", tid |-> proch'.last.tid]
        /\ RunStep("run_stacks", "run_exceptions") => ~Has(stack_traces', wr.tid)
        /\ RunStep("run_exceptions", "run_frames") => ~Has(active_exceptions', wr.tid)
        /\ RunStep("run_frames", "run_vars") => ScopedGone(frame_map, frame_map', wr.tid)
        /\ RunStep("run_vars", "run_continued") => ScopedGone(var_map, var_map', wr.tid)
        /\ RunStep("run_continued", "run_done") =>
              IF \E q \in thread_map.p2v : q[1] = wr.tid
              THEN \E q \in thread_map.p2v :
                      /\ q[1] = wr.tid
                      /\ events' = Append(events, ContinuedEvent(q[2]))
              ELSE events' = events
        /\ ~RunStep("run_continued", "run_done") =>
              ContinuedCount(events') = ContinuedCount(events)
        /\ wr.pc \in {"run_stacks", "run_exceptions", "run_frames", "run_vars",
                      "run_continued"} =>
              wr'.pc \in {wr.pc, "run_exceptions", "run_frames", "run_vars",
                          "run_continued", "run_done"}
      ]_vars

\* A run event for a registered thread has emitted 'continued', and a run
\* event for an unregistered thread has been handled to its end without one.
C16_Witness ==
    /\ wr.pc = "run_done"
    /\ ~Has(thread_map.p2v, wr.tid)
    /\ ContinuedCount(events) = 1

\* The step is the handling of a kill event by pydevd's writer thread.
KillHandled == proch'.nev # proch.nev /\ proch'.last.ev = "kill"

ExitedCount(evs) ==
    Cardinality({i \in DOMAIN evs : evs[i].event = "thread" /\ evs[i].reason = "exited"})

\* C17: a kill event for a thread registered in thread_map releases its
\* external ID and emits exactly one 'thread exited' event; a kill event for
\* an unregistered thread (also one already removed) emits nothing and
\* changes no state.
C17_KillReleasesOrIsNoOp ==
    [][KillHandled =>
          IF \E q \in thread_map.p2v : q[1] = proch'.last.tid
          THEN \E q \in thread_map.p2v :
                  /\ q[1] = proch'.last.tid
                  /\ events' = Append(events, ThreadEvent("exited", q[2]))
                  /\ ~Has(thread_map'.p2v, q[1])
                  /\ ~Has(thread_map'.v2p, q[2])
                  /\ thread_map'.next_id = thread_map.next_id
          ELSE UNCHANGED <<thread_map, frame_map, var_map, stack_traces,
                           active_exceptions, is_process_created, events,
                           responses, coros, ploopq>>
    ]_vars

\* The kill event of a registered thread was delivered twice: one 'thread
\* exited' event has been sent.
C17_Witness ==
    /\ proch.last.ev = "kill"
    /\ proch.nev = 3
    /\ ExitedCount(events) = 1
    /\ thread_map.next_id = 2
    /\ thread_map.p2v = {}

\* C18: after a kill event for thread t has been handled, stack_traces and
\* active_exceptions have no entry for t, whether or not t was registered
\* and also when t was suspended and no run event came in between.
C18_KillDropsCaches ==
    [][KillHandled =>
          /\ ~Has(stack_traces', proch'.last.tid)
          /\ ~Has(active_exceptions', proch'.last.tid)]_vars

\* C19: a stackTrace request for a registered thread that has no cached
\* frames (no suspend event yet, or the cache was purged by a run event)
\* gets a success response with no frames and a total of 0, and allocates
\* no frame ID.
C19_StackTraceWithoutFrames ==
    [][ /\ \A e \in 1..MaxEvents, sf \in StartFrames, lv \in LevelCounts :
              ( /\ ReqStackTrace(e, sf, lv)
                /\ Has(thread_map.v2p, e)
                /\ ~Has(stack_traces, Get(thread_map.v2p, e)) ) =>
                  /\ srv'.pc = "st_frames"
                  /\ srv'.tid = Get(thread_map.v2p, e)
                  /\ srv'.xframes = <<>>
                  /\ srv'.total = 0
                  /\ frame_map' = frame_map
        /\ (srv.pc = "st_frames" /\ srv.total = 0 /\ srv' # srv) =>
              /\ srv'.pc = "done"
              /\ frame_map'.next_id = frame_map.next_id
              /\ responses' = Append(responses,
                                 [req |-> "stackTrace", success |-> TRUE,
                                  ids |-> <<>>, total |-> 0])
      ]_vars

\* After three events, the last a run event handled to its end, a stackTrace
\* request for the registered thread has been answered with no frames.
C19_Witness ==
    /\ srv.pc = "done"
    /\ srv.req = "stackTrace"
    /\ srv.total = 0
    /\ wr.pc = "run_done"
    /\ srv.tid = wr.tid
    /\ Has(thread_map.p2v, wr.tid)
    /\ proch.nev = 3
    /\ ~Has(stack_traces, wr.tid)
    /\ responses = <<[req |-> "stackTrace", success |-> TRUE, ids |-> <<>>,
                      total |-> 0]>>

\* C20: a pause request handled while is_process_created is false gets a
\* failure response with a message and sends no CMD_THREAD_SUSPEND, for
\* every threadId, 0 included; is_process_created becomes true only through
\* a thread-create event or through configurationDone of an attach session,
\* and never becomes false again.
C20_PauseBeforeProcessCreated ==
    [][ /\ \A e \in RequestThreadIds :
              (ReqPause(e) /\ ~is_process_created) =>
                 /\ Len(responses') = Len(responses) + 1
                 /\ responses'[Len(responses')].req = "pause"
                 /\ ~responses'[Len(responses')].success
                 /\ responses'[Len(responses')].message # ""
                 /\ notified' = notified
        /\ (~is_process_created /\ is_process_created') =>
              \/ proch'.nev # proch.nev /\ proch'.last.ev = "create"
              \/ srv.req = "configurationDone" /\ start_reason = "attach"
        /\ is_process_created => is_process_created'
      ]_vars

\* A pause request for all threads was refused, then a thread-create event
\* set is_process_created.
C20_Witness ==
    /\ is_process_created
    /\ Len(responses) = 1
    /\ responses[1].req = "pause"
    /\ ~responses[1].success
    /\ srv.req = "pause"
    /\ notified = <<>>
    /\ Has(thread_map.v2p, 1)

(***************************************************************************)
(* Claims about the threads, variables, setVariable and evaluate requests. *)
(***************************************************************************)
\* The round trips with command cmd that handler h has sent.
SentBy(log, cmd, h) == {i \in DOMAIN log : log[i][1] = cmd /\ log[i][2] = h}

ResponsesTo(rs, h) == {i \in DOMAIN rs : rs[i].h = h}

\* The step resumes handler h of on_evaluate with the reply of round trip n.
EvaluateResumed(h, n) ==
    /\ coros[h].handler = "on_evaluate"
    /\ coros[h].st = "ready"
    /\ coros[h].step = n
    /\ coros'[h] # coros[h]

\* C21: an evaluate request in 'repl' context whose CMD_EVALUATE_EXPRESSION
\* reply reports an evaluation error sends one CMD_EXEC_EXPRESSION round
\* trip with the payload of the first; when the reply to it has a var, the
\* one response carries that var's type and value (None as null), has
\* variablesReference 0, and no variable ID is allocated.
C21_ReplFallbackResult ==
    [][\A h \in DOMAIN coros :
        /\ ( /\ EvaluateResumed(h, 1)
             /\ coros[h].context = "repl"
             /\ coros[h].xml.kind = "var"
             /\ coros[h].xml.isErrorOnEval ) =>
               /\ coros'[h].step = 2
               /\ responses' = responses
               /\ var_map' = var_map
               /\ SentBy(notified', "CMD_EXEC_EXPRESSION", h) = {}
        /\ ( /\ coros[h].handler = "on_evaluate"
             /\ SentBy(notified', "CMD_EXEC_EXPRESSION", h)
                   # SentBy(notified, "CMD_EXEC_EXPRESSION", h) ) =>
               /\ coros[h].step = 2
               /\ coros'[h].st = "await"
               /\ SentBy(notified', "CMD_EXEC_EXPRESSION", h) = {Len(notified')}
               /\ \E i \in SentBy(notified, "CMD_EVALUATE_EXPRESSION", h) :
                     notified'[Len(notified')][3] = notified[i][3]
        /\ (EvaluateResumed(h, 2) /\ coros[h].xml.kind = "var") =>
               /\ responses' = Append(responses,
                     InspResponse(h, "evaluate", TRUE, <<>>, coros[h].xml.type,
                                  IF coros[h].xml.value = "None" /\ coros[h].xml.type = "NoneType"
                                  THEN JsonNull
                                  ELSE coros[h].xml.value, 0))
               /\ ResponsesTo(responses', h) = {Len(responses')}
               /\ var_map' = var_map
               /\ coros'[h].st = "done"
      ]_vars

\* The fallback of an evaluate request in 'repl' context has returned an int
\* after the evaluation had failed with a NameError, and the response is out.
C21_Witness ==
    \E h \in DOMAIN coros :
        /\ coros[h].handler = "on_evaluate"
        /\ coros[h].context = "repl"
        /\ coros[h].xvar = ErrorReply
        /\ coros[h].xml.type = "int"
        /\ coros[h].st = "done"
        /\ \E i \in ResponsesTo(responses, h) :
              responses[i].type = "int" /\ responses[i].result = "1"
        /\ SentBy(notified, "CMD_EXEC_EXPRESSION", h) # {}
        /\ var_map.next_id = 2

\* The request a handler answers.
RequestOf(handler) ==
    IF handler = "on_threads" THEN "threads"
    ELSE IF handler = "on_variables" THEN "variables"
    ELSE IF handler = "on_setVariable" THEN "setVariable"
    ELSE "evaluate"

\* The step resumes handler h with a reply that does not parse.
ResumedWithMalformed(h) ==
    /\ coros[h].st = "ready"
    /\ coros[h].xml.kind = "malformed"
    /\ coros'[h] # coros[h]

\* The round trip handler h is in is one with CMD_EXEC_EXPRESSION.
InExecRoundTrip(h) ==
    \/ coros[h].handler = "on_setVariable" /\ coros[h].step = 1
    \/ coros[h].handler = "on_evaluate" /\ coros[h].step = 2

\* The formatter lock is held only by a handler that is in a round trip.
FormatLockInRoundTrip ==
    fmt_lock' # 0 => coros'[fmt_lock'].st \in {"await", "ready"}

\* C22 as stated: whenever a reply that on_threads, on_variables,
\* on_setVariable or on_evaluate parses does not parse, the handler sends
\* exactly one failure response and the formatter lock is free again.  (The
\* reply of on_setVariable's first round trip is not parsed.)
C22_EveryMalformedReplyFails ==
    [][\A h \in DOMAIN coros :
          ( /\ ResumedWithMalformed(h)
            /\ ~(coros[h].handler = "on_setVariable" /\ coros[h].step = 1) ) =>
             /\ responses' = Append(responses,
                                    ErrorResponse(h, RequestOf(coros[h].handler)))
             /\ coros'[h].st = "done"
             /\ fmt_lock' # h
      ]_vars

\* C22, amended: a reply to CMD_LIST_THREADS, CMD_GET_FRAME, CMD_GET_VARIABLE
\* or CMD_EVALUATE_EXPRESSION that does not parse gets exactly one failure
\* response; a reply to CMD_EXEC_EXPRESSION that does not parse gets none:
\* on_setVariable goes on to its second round trip and on_evaluate answers
\* with the type and value of its first reply.  In every case the formatter
\* lock is released, and it is never held outside a round trip.
C22_ParsedMalformedReplyFails ==
    [][ /\ \A h \in DOMAIN coros :
              ResumedWithMalformed(h) =>
                 /\ fmt_lock' # h
                 /\ IF ~InExecRoundTrip(h)
                    THEN /\ responses' = Append(responses,
                               ErrorResponse(h, RequestOf(coros[h].handler)))
                         /\ ResponsesTo(responses', h) = {Len(responses')}
                         /\ coros'[h].st = "done"
                    ELSE IF coros[h].handler = "on_setVariable"
                    THEN /\ responses' = responses
                         /\ coros'[h].step = 2
                    ELSE /\ responses' = Append(responses,
                               InspResponse(h, "evaluate", TRUE, <<>>,
                                            coros[h].xvar.type, coros[h].xvar.value, 0))
                         /\ coros'[h].st = "done"
        /\ FormatLockInRoundTrip
      ]_vars

\* A variables request whose reply did not parse got the failure response,
\* the lock is free, and the evaluate request after it got its result.
C22_Witness ==
    /\ Len(coros) = 2
    /\ coros[1].handler = "on_variables"
    /\ coros[1].xml.kind = "malformed"
    /\ coros[2].handler = "on_evaluate"
    /\ fmt_lock = 0
    /\ Len(responses) = 2
    /\ responses[1] = ErrorResponse(1, "variables")
    /\ responses[2].h = 2
    /\ responses[2].success
    /\ responses[2].type = "int"

\* The external IDs of the listed threads that are not internal, in order.
RECURSIVE ListedIds(_, _)
ListedIds(m, xthreads) ==
    IF xthreads = <<>> THEN <<>>
    ELSE IF Head(xthreads).internal \/ ~Has(m.p2v, Head(xthreads).id)
    THEN ListedIds(m, Tail(xthreads))
    ELSE <<Get(m.p2v, Head(xthreads).id)>> \o ListedIds(m, Tail(xthreads))

\* C23: the threads response lists the non-internal threads of the reply
\* with the external IDs they are registered under, and no internal thread;
\* no internal thread is ever registered; on_threads reports a thread as
\* started only if it is not registered at that moment, registers it under
\* the reported ID, and does so before the response; a registered thread
\* keeps its external ID.
C23_ThreadsListing ==
    [][ /\ (lp.pc = "th_lookup" /\ lp.todo = <<>> /\ lp' # lp) =>
              responses' = Append(responses,
                    InspResponse(lp.h, "threads", TRUE,
                                 ListedIds(thread_map, coros[lp.h].xml.threads),
                                 "", "", 0))
        /\ \A t \in InternalTids : ~Has(thread_map'.p2v, t)
        /\ (lp.pc # "idle" /\ events' # events /\ lp' # lp) =>
              /\ ~Has(thread_map.p2v, Head(lp.todo).id)
              /\ Has(thread_map'.p2v, Head(lp.todo).id)
              /\ events' = Append(events,
                    ThreadEvent("started", Get(thread_map'.p2v, Head(lp.todo).id)))
              /\ responses' = responses
              /\ coros[lp.h].st # "done"
        /\ \A q \in thread_map.p2v : q \in thread_map'.p2v
      ]_vars

(***************************************************************************)
(* Claims about PydevdSocket.close.                                        *)
(***************************************************************************)
\* C24: over any number of calls to close, one after another, from two
\* threads at once, or from inside the closing callback, os.close is called
\* at most once for each pipe end (also when the descriptor was closed
\* already), _handle_close is called at most once, and exactly once when any
\* call has run to its end; no call waits for a lock its own thread holds.
C24_CloseIdempotent ==
    /\ \A e \in PipeEnds : closeh.closes[e] + closeh.ebadf[e] <= 1
    /\ closeh.handle_close <= 1
    /\ sock_closed =>
          /\ closeh.handle_close = 1
          /\ \A e \in PipeEnds : pipe_ends[e] = [attr |-> "None", fd |-> "closed"]
    /\ \A c \in Closers : closer[c].pc # "stuck"
    /\ (closeh.ncalls > 0 /\ \A c \in Closers : closer[c].pc = "idle") =>
          sock_closed /\ ~sock_closing /\ sock_lock = 0

\* Every call allowed was made, one of them by the closing callback and one
\* on a socket closed before; the read end's descriptor had been closed by
\* its reader.
C24_Witness ==
    /\ closeh.ncalls >= 3
    /\ closeh.returned = closeh.ncalls
    /\ closeh.handle_close = 1
    /\ closeh.ebadf["pipe_r"] = 1
    /\ closeh.closes["pipe_w"] = 1
    /\ sock_closed
    /\ \A c \in Closers : closer[c].pc = "idle"
    /\ closeh.reentered = 1

(***************************************************************************)
(* Claims about the exception breakpoints.                                 *)
(***************************************************************************)
Entries(od) == {od[i] : i \in DOMAIN od}

\* The names an exceptionOptions entry configures, and the mode it gives them.
ConfiguredBy(option) ==
    IF option.path = <<>> \/ option.path[1] # <<"Python Exceptions">> THEN {}
    ELSE IF Len(option.path) = 1 THEN {"BaseException"}
    ELSE UNION {{option.path[i][k] : k \in DOMAIN option.path[i]} :
                  i \in 2..Len(option.path)}

ConfiguredMode(option) ==
    IF option.breakMode = "always" THEN "always"
    ELSE IF option.breakMode = "unhandled" THEN "unhandled" ELSE "never"

\* What a request with these filters and exceptionOptions configures: with
\* options, every name of the python category with the mode of the last
\* option naming it; without, 'BaseException' if a filter is set.
ConfiguredEntries(filters, options) ==
    IF options # <<>>
    THEN {<<n, ConfiguredMode(options[i])>> :
            <<n, i>> \in {ni \in ExceptionNames \X DOMAIN options :
                            /\ ni[1] \in ConfiguredBy(options[ni[2]])
                            /\ \A j \in DOMAIN options :
                                  j > ni[2] => ni[1] \notin ConfiguredBy(options[j])}}
    ELSE IF "raised" \in filters THEN {<<"BaseException", "always">>}
    ELSE IF "uncaught" \in filters THEN {<<"BaseException", "unhandled">>}
    ELSE {}

\* The commands the request handled last has sent.
SentByLastRequest == SubSeq(notified, exch.mark + 1, Len(notified))

\* C25: after every setExceptionBreakpoints request, exceptions holds
\* exactly the entries that request configures (without exceptionOptions:
\* 'BaseException' with mode 'always' for the filter 'raised', else
\* 'unhandled' for 'uncaught', else nothing), one entry per name, and for
\* every entry that existed before the request one
\* CMD_REMOVE_EXCEPTION_BREAK was sent.
C25_ExceptionsRebuilt ==
    /\ Entries(exceptions) = ConfiguredEntries(exch.filters, exch.options)
    /\ Cardinality(Entries(exceptions)) = Len(exceptions)
    /\ \A e \in Entries(exch.before) :
          Cardinality({i \in DOMAIN SentByLastRequest :
                          SentByLastRequest[i] = <<"CMD_REMOVE_EXCEPTION_BREAK", e[1]>>}) = 1

\* A request with two options replaced a configuration that held other
\* names.
C25_Witness ==
    /\ Len(exch.options) = 2
    /\ Len(exceptions) = 2
    /\ exch.before # <<>>
    /\ \E e \in Entries(exch.before) : \A f \in Entries(exceptions) : f[1] # e[1]

\* A lookup step of get_break_mode.
BreakModeLookedUp == exch'.lookup # NoLookup /\ responses' = responses

\* The keys of the dict that the name contains, in the order of the dict.
Matching(od, name) == {i \in DOMAIN od : name \in Containing(od[i][1])}

ModeOr(od, k, default) ==
    IF \E e \in Entries(od) : e[1] = k
    THEN (CHOOSE e \in Entries(od) : e[1] = k)[2] ELSE default

Position(h, x) == CHOOSE i \in DOMAIN h : h[i] = x

Happened(h, x) == \E i \in DOMAIN h : h[i] = x

\* C27: no request is processed, and the message thread does not enter
\* process_messages, before start has started the event loop, sent the
\* initial output event and released readylock.
C27_StartGate ==
    \A i \in DOMAIN gateh :
        gateh[i] \in HandshakeRequests \cup {"process_messages"} =>
            /\ \A x \in {"loop", "output", "release"} :
                  Happened(gateh, x) /\ Position(gateh, x) < i
            /\ startpc = "done"

\* The editor's request was waiting in the socket before start released
\* the lock, and has been processed since.
C27_Witness ==
    /\ Len(gateh) >= 5
    /\ gateh[4] = "process_messages"
    /\ gateh[5] \in HandshakeRequests
    /\ inbox # <<>>

\* What was sent to the editor at the end of the session.
SentKind(kind) == {i \in DOMAIN stoph.out : stoph.out[i][1] = kind}

ResponsesToDisconnect(request) ==
    {i \in DOMAIN stoph.out : stoph.out[i] = <<"response", request>>}

\* C28: over the calls of handle_pydevd_stopped, 'exited' and 'terminated'
\* are sent at most once each, 'exited' carries the exit code of the first
\* call and comes before 'terminated', both were sent when the first call
\* has returned, and the wait for the disconnect request begins after both.
C28_ExitedThenTerminated ==
    /\ Cardinality(SentKind("exited")) <= 1
    /\ Cardinality(SentKind("terminated")) <= 1
    /\ \A i \in SentKind("exited") : stoph.out[i][2] = stoph.first
    /\ \A i \in SentKind("terminated") : \E j \in SentKind("exited") : j < i
    /\ (stoph.ncalls > 0 /\ stopper.pc = "idle") =>
          SentKind("exited") # {} /\ SentKind("terminated") # {}
    /\ (stopper.pc \in {"wait", "respond"} \/ stoph.timedout) => stoph.waited > 0
    /\ stoph.waited > 0 =>
          \E j \in SentKind("exited"), k \in SentKind("terminated") :
              j < k /\ k <= stoph.waited

\* handle_pydevd_stopped was called twice, with exit code 1 first; the
\* wait of the first call timed out.
C28_Witness ==
    /\ stoph.ncalls = 2
    /\ stopper.pc = "idle"
    /\ stoph.timedout
    /\ stoph.first = 1
    /\ SentKind("exited") # {}

\* C29 as stated: every disconnect request eventually has exactly one
\* response, in attach and in launch sessions, whenever it arrives, and
\* _wait_for_disconnect always returns.
C29_DisconnectAnswered ==
    /\ \A request \in 1..MaxDisconnects :
          /\ [](Cardinality(ResponsesToDisconnect(request)) <= 1)
          /\ [](stoph.nreqs >= request
                  => <>(Cardinality(ResponsesToDisconnect(request)) = 1))
    /\ [](stopper.pc = "wait" => <>(stopper.pc = "idle"))

\* The parts of C29 that hold: an attach session answers at once, no
\* request is answered twice, and _wait_for_disconnect returns.
C29_AttachAnsweredWaitReturns ==
    /\ \A request \in 1..MaxDisconnects :
          /\ [](Cardinality(ResponsesToDisconnect(request)) <= 1)
          /\ [](stoph.nreqs >= request /\ start_reason = "attach"
                  => Cardinality(ResponsesToDisconnect(request)) = 1)
    /\ [](stopper.pc = "wait" => <>(stopper.pc = "idle"))

\* A launch session whose disconnect request came after the wait had timed
\* out: the request is kept and nobody answers it.
C29_LateDisconnect ==
    /\ start_reason = "launch"
    /\ stoph.timedout
    /\ stopper.pc = "idle"
    /\ msgth.pc = "idle"
    /\ stoph.nreqs = 1
    /\ disconnect_request = 1
    /\ ResponsesToDisconnect(1) = {}

(***************************************************************************)
(* Claims about the hit condition.                                         *)
(***************************************************************************)
\* The text without the blanks around it.
Core(s) ==
    IF \A i \in DOMAIN s : s[i] = " " THEN <<>>
    ELSE LET a == CHOOSE i \in DOMAIN s : s[i] # " " /\ \A j \in 1..(i - 1) : s[j] = " "
             b == CHOOSE i \in DOMAIN s : s[i] # " " /\ \A j \in (i + 1)..Len(s) : s[j] = " "
         IN SubSeq(s, a, b)

\* What the claim says of a text whose core is c; TRUE for a text of none
\* of the forms it names.
ClassifiedAs(c, r) ==
    IF c = <<>> THEN r.none
    ELSE IF \A i \in DOMAIN c : c[i] \in Digits
    THEN ~r.none /\ r.text = <<"@HIT@", " ", "=", "=", " ">> \o c
    ELSE IF c[1] = "%"
    THEN ~r.none /\ r.text = <<"@HIT@", " ">> \o c \o <<" ", "=", "=", " ", "0">>
    ELSE IF c[1] \in {">", "<"} \/ (Len(c) >= 2 /\ c[1] = "=" /\ c[2] = "=")
    THEN ~r.none /\ r.text = <<"@HIT@", " ">> \o c
    ELSE TRUE

\* C30 as stated: an integer N gives '@HIT@ == N', '%N' gives
\* '@HIT@ %N == 0', a text starting with '==', '>' or '<' gives '@HIT@ '
\* and the text, an empty or missing text gives no condition, and blanks
\* around a text do not change its class.
C30_HitConditionClasses ==
    hit_expr.done =>
        ClassifiedAs(IF hit_condition.given THEN Core(hit_condition.text) ELSE <<>>,
                     hit_expr)

\* What holds: the same for every text but one of blanks only, which is
\* returned as it is, as is every text of none of the forms.
C30_ClassesButBlank ==
    hit_expr.done =>
        IF hit_condition.given /\ hit_condition.text # <<>>
           /\ Core(hit_condition.text) = <<>>
        THEN ~hit_expr.none /\ hit_expr.text = hit_condition.text
        ELSE /\ ClassifiedAs(IF hit_condition.given THEN Core(hit_condition.text)
                             ELSE <<>>, hit_expr)
             /\ "@HIT@" \notin {hit_expr.text[i] : i \in DOMAIN hit_expr.text}
                   => hit_expr.none \/ hit_expr.text = hit_condition.text

\* ' 5 ' was given: the blanks are gone from '@HIT@ == 5'.
C30_BlanksStripped ==
    /\ hit_condition = HitCondition(TRUE, <<" ", "5", " ">>)
    /\ hit_expr = Returned(FALSE, <<"@HIT@", " ", "=", "=", " ", "5">>)

(***************************************************************************)
(* Claims about replies and the handlers that await them.                  *)
(***************************************************************************)
\* The seq numbers of routed messages, in the order send() took them up.
RoutedSeqs == [i \in DOMAIN sockh.routed |-> sockh.routed[i][2]]

\* C31: with several requests outstanding and replies arriving in any
\* order, and with events arriving meanwhile, a reply completes only the
\* future registered under its own sequence number: every result set or
\* scheduled for a future carries that future's number, and a message with
\* no pending entry goes to the event handler while the others stay pending.
C31_RepliesReachOwnFutures ==
    /\ \A f \in DOMAIN futs :
          /\ \A i \in DOMAIN futs[f].results : futs[f].results[i][2] = futs[f].seq
          /\ \A i \in DOMAIN loopq : loopq[i][1] = f => loopq[i][2][2] = futs[f].seq
    /\ (snd.pc \in {"dispatch", "done"} /\ snd.fut # NoFut) =>
          futs[snd.fut].seq = snd.msg[2]
    /\ \A p \in requests : p[1] \notin sockh.resolved

\* Two requests were outstanding at once and their replies came in the
\* reverse order; each future holds the reply to its own request.
C31_Witness ==
    /\ Len(futs) = 2
    /\ Len(sockh.routed) = 2
    /\ RoutedSeqs[1] = futs[2].seq
    /\ RoutedSeqs[2] = futs[1].seq
    /\ futs[1].results = <<sockh.routed[2]>>
    /\ futs[2].results = <<sockh.routed[1]>>

MessagesHandled(s) == Cardinality({i \in DOMAIN msg_log : msg_log[i][2] = s})

\* C35: a request's entry is registered before its packet is written, so
\* the first reply with the number of a request finds the entry: it
\* completes the future and is not handed to the event handler, whatever
\* the requesting threads are doing.
C35_ReplyFindsEntry ==
    /\ \A r \in Requesters :
          (req[r].kind = "request" /\ req[r].seq \in Written) =>
              \E f \in DOMAIN futs : futs[f].seq = req[r].seq
    /\ \A f \in DOMAIN futs :
          LET n == Len(RoutedWith(futs[f].seq))
          IN /\ futs[f].seq \in Written => (n = 0 <=> Has(requests, futs[f].seq))
             /\ n > 0 => futs[f].seq \in sockh.resolved
             /\ MessagesHandled(futs[f].seq) <= (IF n = 0 THEN 0 ELSE n - 1)

\* The reply to one request was routed to its future while another thread
\* was inside pydevd_request, holding the lock between registering and
\* writing.
C35_Witness ==
    /\ \E r \in Requesters : req[r].pc = "send" /\ sock_lock = r
    /\ \E f \in DOMAIN futs : Len(futs[f].results) = 1

\* PydevdSocket.close, lines 274-302, run from its first line to its last
\* by one caller while no other thread is inside the socket: both pipe
\* attributes are None and their descriptors closed, _closed is set.
PydevdSocketClosed ==
    /\ UNCHANGED otherThanBG
    /\ ~AlreadyClosed(sock_closed)
    /\ ~sock_closing
    /\ sock_lock = 0
    /\ sock_closed' = TRUE
    /\ pipe_ends' = [e \in PipeEnds |-> [attr |-> "None", fd |-> "closed"]]
    /\ closeh' = [closeh EXCEPT !.ncalls = @ + 1, !.returned = @ + 1,
                                !.handle_close = @ + 1]
    /\ UNCHANGED <<sock_seq, sock_lock, requests, pipe, futs, loopq, req, snd, msg_log,
                   sockh, sock_closing, closer>>

\* The handlers that format values, with a pydevd socket that may be closed
\* under them.
NextFormat ==
    \/ \E e \in RequestRefs : ReqVariables(e)
    \/ \E e \in RequestRefs : ReqSetVariable(e)
    \/ \E e \in RequestRefs, context \in EvalContexts : ReqEvaluate(e, context)
    \/ \E h \in 1..MaxRequests, r \in VarReplies : EvXmlReply(h, r)
    \/ RetryFormat
    \/ LoopFormat
    \/ ResumeVariables
    \/ ResumeSetVariableExec
    \/ ResumeSetVariable
    \/ ResumeEvaluate
    \/ ResumeEvaluateExec
    \/ PydevdSocketClosed

SpecFormat == InitInspect /\ [][NextFormat]_vars

\* The handlers that are inside the block guarded by using_format.
InGuardedBlock ==
    {h \in DOMAIN coros : /\ coros[h].handler \in {"on_variables", "on_setVariable",
                                                   "on_evaluate"}
                          /\ coros[h].st \in {"await", "ready"}}

\* The handlers whose guarded block has been left, by its end or by an
\* exception.
LeftGuardedBlock ==
    {h \in DOMAIN coros : coros[h].st \in {"format", "done", "raised"}}

\* C32 as stated: at most one handler is inside the block guarded by the
\* formatter lock, and a handler that has left the block, by its end or by
\* an exception of the round trip, holds the lock no longer and has put the
\* previous format back; so the lock is held only while its holder is inside
\* the block and no handler waits for it forever.
C32_FormatLockAlwaysReleased ==
    /\ Cardinality(InGuardedBlock) <= 1
    /\ \A h \in LeftGuardedBlock : fmt_lock # h /\ fmt_repr # h
    /\ fmt_lock # 0 => fmt_lock \in InGuardedBlock

\* The socket was closed, a variables request took the lock and its round
\* trip raised: the lock is held by the dead handler, and the handler of the
\* next request sleeps in the acquire loop.
C32_LockLeftHeld ==
    /\ sock_closed
    /\ Len(coros) = 2
    /\ coros[1].st = "raised"
    /\ fmt_lock = 1
    /\ fmt_repr = 1
    /\ coros[2].st = "sleep"

\* The calls of pydevd_request, pydevd_notify and send with a socket that
\* may be closed between them.
NextSockClosed ==
    \/ StepB
    \/ PydevdSocketClosed

SpecSockClosed == Init /\ [][NextSockClosed]_vars

\* The step is the os.write of caller r's pydevd_notify or pydevd_request.
WriteStep(r) ==
    /\ req[r].pc \in {"write", "send"}
    /\ req'[r].pc # req[r].pc

\* C33 as stated: the write of a pydevd_notify or pydevd_request made after
\* PydevdSocket.close raises to the caller, nothing is written, and the
\* failed call leaves no entry under its number in the pending table.
C33_FailedCallLeavesNoEntry ==
    [][\A r \in Requesters :
          (sock_closed /\ WriteStep(r)) =>
             /\ req'[r].pc = "raised"
             /\ pipe' = pipe
             /\ ~Has(requests', req[r].seq)
      ]_vars

\* A pydevd_request made after close has raised and its entry is still in
\* the pending table, with a future no reply can complete.
C33_EntryLeftBehind ==
    /\ sock_closed
    /\ \E r \in Requesters :
          /\ req[r].pc = "raised"
          /\ req[r].kind = "request"
          /\ Has(requests, req[r].seq)
          /\ Get(requests, req[r].seq) = req[r].fut
          /\ req[r].seq \notin Written
          /\ sock_seq > req[r].seq

\* The step sends 'continued' for pydevd thread t.
ContinuedSent(t) ==
    /\ Has(thread_map.p2v, t)
    /\ events' = Append(events, ContinuedEvent(Get(thread_map.p2v, t)))

\* The suspend handlers of thread t that have yet to send their 'stopped'.
StoppedOwed(t) ==
    {h \in DOMAIN coros : /\ coros[h].handler = "on_pydevd_thread_suspend"
                          /\ coros[h].tid = t
                          /\ coros[h].st \in {"await", "ready"}}

\* C34 as stated: for each thread the 'stopped' and 'continued' events come
\* in the order in which the suspend and run events were received: when the
\* 'continued' of a run event is sent, every suspension of the thread that
\* was received before it has sent its 'stopped', the exception stops whose
\* handler awaits a round trip included.
C34_StoppedBeforeContinued ==
    [][\A t \in Tids : ContinuedSent(t) => StoppedOwed(t) = {}]_vars

\* One suspend event and one run event were received for the thread, in
\* this order, and the editor was sent 'continued' first and 'stopped' after.
C34_StoppedAfterContinued ==
    /\ proch.nev = 3
    /\ proch.last.ev = "run"
    /\ StoppedCount(events) = 1
    /\ ContinuedCount(events) = 1
    /\ \E i \in DOMAIN events :
          /\ i < Len(events)
          /\ events[i].event = "continued"
          /\ events[Len(events)] = StoppedEvent("exception", events[i].threadId)

\* The frame lists, startFrame and levels arguments of the stackTrace
\* requests of one suspension.
SliceFrameLists == {<<>>, <<1>>, <<2, 1>>, <<3, 1, 2>>}

SliceStarts == 0..3

SliceLevels == 0..3

\* One thread is registered and suspended with any of the frame lists
\* cached; no frame has an ID yet.
InitSlice ==
    /\ InitA /\ InitB /\ InitD /\ InitE /\ InitF /\ InitG /\ InitH /\ InitI /\ InitJ /\ InitK
    /\ thread_map = IDMapAutogen(IDMapNew, "t1")
    /\ frame_map = IDMapNew
    /\ var_map = IDMapNew
    /\ \E frames \in SliceFrameLists : stack_traces = Put({}, "t1", frames)
    /\ active_exceptions = {}
    /\ is_process_created = TRUE
    /\ events = <<>>
    /\ responses = <<>>
    /\ wr = IdleWriter
    /\ coros = <<>>
    /\ ploopq = <<>>
    /\ srv = IdleServer
    /\ proch = [suspended |-> {"t1"}, nev |-> 0, nrq |-> 0, last |-> NoEvent]

\* The stackTrace requests of the message thread within one suspension.
NextSlice ==
    \/ \E sf \in SliceStarts, lv \in SliceLevels : ReqStackTrace(1, sf, lv)
    \/ StackTraceFrame
    \/ StackTraceRespond

SpecSlice == InitSlice /\ [][NextSlice]_vars

\* The number of frames a request for levels frames from start on gets of n.
SliceLen(n, start, levels) ==
    LET rest == IF n > start THEN n - start ELSE 0
    IN IF levels = 0 \/ levels > rest THEN rest ELSE levels

\* The frames the responses so far have returned.
ReturnedFrames ==
    {Get(frame_map.v2p, responses[i].ids[j]) :
        <<i, j>> \in {p \in (DOMAIN responses) \X (1..3) : p[2] <= Len(responses[p[1]].ids)}}

\* C36: a stackTrace request answered for a thread with n cached frames
\* returns the frames start, start+1, ... in the cached order: min(levels,
\* max(0, n - start)) of them when levels > 0 and all max(0, n - start) when
\* levels = 0, with totalFrames = n.  Only returned frames have frame IDs,
\* and a frame has one ID in every response of the suspension.
C36_StackTraceSlice ==
    (srv.pc = "done" /\ srv.req = "stackTrace") =>
       LET r == responses[Len(responses)]
           xframes == Get(stack_traces, srv.tid)
           n == Len(xframes)
           k == SliceLen(n, srv.args[1], srv.args[2])
       IN /\ r.total = n
          /\ Len(r.ids) = k
          /\ \A i \in 1..k :
                Get(frame_map.v2p, r.ids[i]) = <<srv.tid, xframes[srv.args[1] + i]>>
          /\ Keys(frame_map.p2v) = ReturnedFrames
          /\ \A q \in frame_map.p2v : Get(frame_map.v2p, q[2]) = q[1]
          /\ Cardinality(frame_map.v2p) = Cardinality(frame_map.p2v)

\* Two requests were answered for three cached frames: the first returned
\* the second frame alone, the second returned the last two frames, with the
\* second frame under the ID it had before and one new ID.
C36_Witness ==
    /\ srv.pc = "done"
    /\ Len(responses) = 2
    /\ Get(stack_traces, "t1") = <<3, 1, 2>>
    /\ responses[1].total = 3
    /\ Len(responses[1].ids) = 1
    /\ srv.args = <<1, 0>>
    /\ Len(responses[2].ids) = 2
    /\ responses[2].ids[1] = responses[1].ids[1]
    /\ responses[2].ids[2] # responses[1].ids[1]
    /\ Cardinality(frame_map.p2v) = 2

\* The step is a call of re_build_breakpoints.
RebuildCalled == bph'.nrebuild # bph.nrebuild

\* The step ends the on_setBreakpoints call of a replay.
RebuildFinished ==
    /\ srv.pc = "bp_add"
    /\ srv.req = "re_build_breakpoints"
    /\ srv'.pc = "done"

\* The lines of the breakpoints registered for a path, in the order of their
\* CMD_SET_BREAK commands.
RECURSIVE RegisteredLines(_, _, _)
RegisteredLines(m, log, path) ==
    IF log = <<>> THEN <<>>
    ELSE LET c == Head(log)
         IN (IF /\ c[1] = "CMD_SET_BREAK"
                /\ c[2][2] = path
                /\ c[2][3] \in BpIds(m, path)
             THEN <<c[2][4]>> ELSE <<>>)
            \o RegisteredLines(m, Tail(log), path)

\* C37: re_build_breakpoints does nothing when no setBreakpoints request was
\* handled; otherwise it replays the arguments of the last request: the
\* stored arguments stay as they are, no response is sent, every breakpoint
\* registered for the path before is removed with one CMD_REMOVE_BREAK, and
\* when the replay ends the breakpoints registered for the path are those of
\* the last request, same lines in the same order, after the first replay
\* and after every later one.
C37_RebuildReplaysLastRequest ==
    [][ /\ RebuildCalled =>
             /\ bkpoints' = bkpoints
             /\ responses' = responses
             /\ bkpoints = NoArgs => UNCHANGED <<bp_map, notified, srv>>
        /\ RebuildFinished =>
             /\ responses' = responses
             /\ bkpoints' = bkpoints
             /\ RegisteredLines(bp_map', notified', bkpoints.path) = bkpoints.lines
             /\ Cardinality(BpIds(bp_map', bkpoints.path)) = Len(bkpoints.lines)
             /\ \A id \in bph.old : ~Has(bp_map'.v2p, id) /\ RemovesSent(id) = 1
      ]_vars

\* A request for two breakpoints was handled and replayed twice: the path
\* has two breakpoints with the request's lines under IDs of the second
\* replay, and the one response is that of the request.
C37_Witness ==
    /\ srv.pc = "done"
    /\ srv.req = "re_build_breakpoints"
    /\ bph.nrebuild = 2
    /\ bkpoints.lines = <<10, 20>>
    /\ BpIds(bp_map, bkpoints.path) = {5, 6}
    /\ RegisteredLines(bp_map, notified, bkpoints.path) = <<10, 20>>
    /\ Len(responses) = 1

\* The entries of the breakpoint map, in both directions, whose key has the
\* path.
BpEntries(m, path) ==
    [p2v |-> {q \in m.p2v : q[1][1] = path}, v2p |-> {q \in m.v2p : q[2][1] = path}]

\* The commands sent to pydevd that name the path.
RECURSIVE BpCommands(_, _)
BpCommands(log, path) ==
    IF log = <<>> THEN <<>>
    ELSE (IF /\ Head(log)[1] \in {"CMD_REMOVE_BREAK", "CMD_SET_BREAK"}
             /\ Head(log)[2][2] = path
          THEN <<Head(log)>> ELSE <<>>)
         \o BpCommands(Tail(log), path)

\* C38: no step of on_setBreakpoints for a path, called by a request or by
\* re_build_breakpoints, removes, adds or renumbers a bp_map entry of another
\* path, and none sends CMD_REMOVE_BREAK or CMD_SET_BREAK for another path.
C38_OtherPathsUntouched ==
    [][\A other \in BpPaths :
          other # bkpoints'.path =>
             /\ BpEntries(bp_map', other) = BpEntries(bp_map, other)
             /\ BpCommands(notified', other) = BpCommands(notified, other)
      ]_vars

\* a.py got two breakpoints, then b.py got one, which a replay removed and
\* registered again under a new ID: a.py has the two IDs it had, and no
\* command after the first two names it.
C38_Witness ==
    /\ srv.pc = "done"
    /\ srv.req = "re_build_breakpoints"
    /\ bkpoints.path = "b.py"
    /\ BpIds(bp_map, "a.py") = {1, 2}
    /\ BpIds(bp_map, "b.py") = {4}
    /\ RemovesSent(3) = 1
    /\ Len(BpCommands(notified, "a.py")) = 2
    /\ Len(BpCommands(notified, "b.py")) = 3

\* The arguments of a remove name one registered entry of the map, in both
\* directions.
NamesOneEntry(m, pydevd_id, vscode_id) ==
    LET r == RemoveResolve(m, pydevd_id, vscode_id)
    IN /\ r.ok
       /\ Has(m.v2p, r.id) /\ Get(m.v2p, r.id) = r.key
       /\ Has(m.p2v, r.key) /\ Get(m.p2v, r.key) = r.id

\* C39 as stated: a remove whose arguments do not name one registered entry
\* (neither argument given, an unregistered key or ID, or a key and an ID of
\* different entries) leaves both maps as the call found them.
C39_FailedRemoveChangesNothing ==
    \A c \in Callers :
        ( /\ call[c].pc = "done"
          /\ call[c].op = "remove"
          /\ ~NamesOneEntry(call[c].snap, call[c].arg.key, call[c].id) ) =>
            /\ idmap.v2p = call[c].snap.v2p
            /\ idmap.p2v = call[c].snap.p2v

\* remove was called with the ID of the one registered entry and a key that
\* is not registered: it raised KeyError, the forward entry is gone and the
\* inverse entry is still there.
C39_HalfRemoved ==
    /\ call[1].pc = "done"
    /\ call[1].op = "remove"
    /\ call[1].ret = KeyError
    /\ call[1].snap.v2p = {<<1, <<"k1">>>>}
    /\ call[1].arg.key = <<"k2">>
    /\ call[1].id = 1
    /\ idmap.v2p = {}
    /\ idmap.p2v = {<<<<"k1">>, 1>>}

\* The number of 'process' events sent to the editor.
ProcessCount(evs) == Cardinality({i \in DOMAIN evs : evs[i] = ProcessEvent})

\* C40: the 'process' event is sent at most once in a session: it has been
\* sent once when is_process_created is set and not at all before, whatever
\* the order of configurationDone and the thread-create events.
C40_ProcessEventOnce ==
    ProcessCount(events) = IF is_process_created THEN 1 ELSE 0

\* An attach session: configurationDone has been handled, pydevd has
\* reported two threads, and the editor got one 'process' event, the first
\* event of all.
C40_Witness ==
    /\ start_reason = "attach"
    /\ srv.pc = "done"
    /\ srv.req = "configurationDone"
    /\ proch.nev = 2
    /\ is_process_created
    /\ ProcessCount(events) = 1
    /\ events[1] = ProcessEvent
    /\ Len(events) = 3

====
